---- MODULE Spec2Model ----
(***************************************************************************)
(* Conversion-validation subsystem of the Code-Conversion repository:      *)
(* ValidationController.run_all and its three strategies (LLMValidator,    *)
(* SemanticValidator, PerformanceAnalyzer).                                 *)
(*                                                                         *)
(* Texts (file contents, model responses, verdict details) are TLA+        *)
(* strings; Python's str operations are operators over them.               *)
(***************************************************************************)
EXTENDS Integers, Sequences, FiniteSets, TLC

VARIABLES
    original_file,    \* [suffix, readable, content]: run_all's original_file
    converted_file,   \* [suffix, readable, content]: run_all's converted_file
    strict_arg,       \* ValidationController(strict_mode=...)
    cfg_strict,       \* config.json validation.strict_mode: <<>> (not set) or <<value>>
    strict_mode,      \* self.strict_mode after __init__
    skip_validators,  \* self.skip_validators
    pc,               \* position of the call in progress
    idx,              \* index into self.validators of the next loop iteration
    llm_outcome,      \* what openai.chat.completions.create did in this call
    exec_log,         \* subprocess.run calls made, in order
    returned,         \* verdicts exactly as the strategies returned them
    results,          \* run_all's results list (after the rescue override)
    matrix,           \* run_all's matrix list
    report,           \* run_all's return value, NoReport until it returns
    file_metadata,    \* [name, language, content]: the FileMetadata analysed
    segment_start,    \* extract_context's segment_start
    grammar_available,\* whether tree_sitter_util.LANGUAGES holds the file's grammar
    segments,         \* what segment_code returned
    context,          \* what extract_context returned
    max_retries,      \* ModelClient.max_retries
    backoff_factor,   \* ModelClient.backoff_factor
    attempt,          \* get_completion's loop variable
    api_log,          \* what each openai.chat.completions.create call of it did
    waits,            \* the time.sleep calls of get_completion, in seconds
    completion        \* get_completion's return value, once it returned

\* the state of the analysis layer
analysis == <<file_metadata, segment_start, grammar_available, segments, context>>

\* the state of a ModelClient and of its get_completion call
client == <<max_retries, backoff_factor, attempt, api_log, waits, completion>>

vars == <<original_file, converted_file, strict_arg, cfg_strict, strict_mode,
          skip_validators, pc, idx, llm_outcome, exec_log, returned, results,
          matrix, report, analysis, client>>

-----------------------------------------------------------------------------
(* Bounds of the model *)

\* longest original file, in lines; a converted file may be one line longer
MaxLines == 2
\* longest judging-model response, in chunks of ResponseChunks
MaxChunks == 2
\* longest measured subprocess duration, in clock units
MaxDuration == 3

-----------------------------------------------------------------------------
(* Python str operations *)

Min(S) == CHOOSE m \in S : \A n \in S : m <= n

\* str.lower() on the ASCII letters
UpperToLower ==
    [c \in {"A","B","C","D","E","F","G","H","I","J","K","L","M","N","O","P",
            "Q","R","S","T","U","V","W","X","Y","Z"} |->
        CASE c = "A" -> "a" [] c = "B" -> "b" [] c = "C" -> "c" [] c = "D" -> "d"
          [] c = "E" -> "e" [] c = "F" -> "f" [] c = "G" -> "g" [] c = "H" -> "h"
          [] c = "I" -> "i" [] c = "J" -> "j" [] c = "K" -> "k" [] c = "L" -> "l"
          [] c = "M" -> "m" [] c = "N" -> "n" [] c = "O" -> "o" [] c = "P" -> "p"
          [] c = "Q" -> "q" [] c = "R" -> "r" [] c = "S" -> "s" [] c = "T" -> "t"
          [] c = "U" -> "u" [] c = "V" -> "v" [] c = "W" -> "w" [] c = "X" -> "x"
          [] c = "Y" -> "y" [] c = "Z" -> "z"]

LowerChar(c) == IF c \in DOMAIN UpperToLower THEN UpperToLower[c] ELSE c

RECURSIVE Lower(_)
Lower(s) ==
    IF Len(s) = 0 THEN ""
    ELSE IF Len(s) = 1 THEN LowerChar(s)
    ELSE LET h == Len(s) \div 2
         IN  Lower(SubSeq(s, 1, h)) \o Lower(SubSeq(s, h + 1, Len(s)))

\* the positions where sub occurs in s
Occurrences(s, sub) ==
    {i \in 1..(Len(s) - Len(sub) + 1) : SubSeq(s, i, i + Len(sub) - 1) = sub}

\* `sub in s`
Contains(s, sub) == Occurrences(s, sub) # {}

\* s.startswith(prefix)
StartsWith(s, prefix) ==
    Len(prefix) <= Len(s) /\ SubSeq(s, 1, Len(prefix)) = prefix

\* s.count(sub): occurrences counted left to right without overlap
RECURSIVE Count(_, _)
Count(s, sub) ==
    IF ~Contains(s, sub) THEN 0
    ELSE LET i == Min(Occurrences(s, sub))
         IN  1 + Count(SubSeq(s, i + Len(sub), Len(s)), sub)

\* s.split("\n")
RECURSIVE SplitLines(_)
SplitLines(s) ==
    IF ~Contains(s, "\n") THEN <<s>>
    ELSE LET i == Min(Occurrences(s, "\n"))
         IN  <<SubSeq(s, 1, i - 1)>> \o SplitLines(SubSeq(s, i + 1, Len(s)))

\* the characters \s matches, and those str.strip() removes
Whitespace == {" ", "\t", "\n", "\r", "\f"}

\* `not line.strip()`
IsBlank(s) == \A i \in 1..Len(s) : SubSeq(s, i, i) \in Whitespace

-----------------------------------------------------------------------------
(* Files and verdicts *)

\* Path.suffix[1:].lower() if Path.suffix else "unknown"
SuffixTag(suffix) ==
    IF suffix = "" THEN "unknown" ELSE Lower(SubSeq(suffix, 2, Len(suffix)))

LangTag(file) == SuffixTag(file.suffix)

\* the dict a strategy returns
Verdict(name, passed, details) ==
    [raised |-> FALSE, name |-> name, passed |-> passed, details |-> details]

\* a strategy call that ends by raising `error` instead of returning
Raises(error) ==
    [raised |-> TRUE, name |-> "", passed |-> FALSE, details |-> error]

ValidatorNames == <<"LLMValidator", "SemanticValidator", "PerformanceAnalyzer">>

NoOutcome == [kind |-> "not called", text |-> ""]
NoReport == [returned |-> FALSE]

\* no get_completion call is in progress
NoCompletion ==
    /\ max_retries = 3
    /\ backoff_factor = 2
    /\ attempt = 1
    /\ api_log = <<>>
    /\ waits = <<>>
    /\ completion = [returned |-> FALSE, value |-> ""]

\* no analysis call is in progress
NoAnalysis ==
    /\ file_metadata = [name |-> "", language |-> "", content |-> ""]
    /\ segment_start = 0
    /\ grammar_available = FALSE
    /\ segments = <<>>
    /\ context = [context_code |-> "", source_lines |-> <<0, 0>>]

-----------------------------------------------------------------------------
(* LLMValidator.validate *)

\* the keyword heuristics applied to the response text
LLMJudgeIgnoringFail(result) ==
    LET result_lower == Lower(result)
        passed == IF Contains(result_lower, "pass") THEN TRUE
                  ELSE IF Contains(result_lower, "fail") THEN FALSE
                  ELSE TRUE
    IN  Verdict("LLMValidator", passed, result)

LLMJudge(result) ==
    LET result_lower == Lower(result)
        passed == IF Contains(result_lower, "pass") /\ ~Contains(result_lower, "fail")
                    THEN TRUE
                  ELSE IF Contains(result_lower, "fail") THEN FALSE
                  ELSE TRUE
    IN  Verdict("LLMValidator", passed, result)

\* the except branch around the model call
LLMOnErrorFailClosed(e) ==
    Verdict("LLMValidator", FALSE, "LLM validation error: " \o e \o ". Defaulting to PASS.")

LLMOnError(e) ==
    Verdict("LLMValidator", TRUE, "LLM validation error: " \o e \o ". Defaulting to PASS.")

\* validate(original_file, converted_file) when the model call ends in `outcome`
LLMValidate(orig, conv, outcome) ==
    IF ~orig.readable \/ ~conv.readable
      THEN Raises("FileNotFoundError")      \* the two open() calls precede the try
    ELSE IF outcome.kind = "error" THEN LLMOnError(outcome.text)
    ELSE IF outcome.kind = "none"
      THEN Verdict("LLMValidator", FALSE, "No response from LLM.")
    ELSE LLMJudge(outcome.text)

-----------------------------------------------------------------------------
(* Regular expressions of SemanticValidator._extract_structural_elements.   *)
(* A pattern is a sequence of atoms; Ends computes, with full backtracking, *)
(* every position at which a match starting at i can end.                   *)

\* the characters \w matches
WordChars ==
    {"a","b","c","d","e","f","g","h","i","j","k","l","m","n","o","p","q","r",
     "s","t","u","v","w","x","y","z","A","B","C","D","E","F","G","H","I","J",
     "K","L","M","N","O","P","Q","R","S","T","U","V","W","X","Y","Z","0","1",
     "2","3","4","5","6","7","8","9","_"}

\* (?:a|b|c)
Lit(alts) == [k |-> "lit", alts |-> alts, set |-> {}, neg |-> FALSE, min |-> 0]
\* (?:a|b|c)?
OptLit(alts) == [k |-> "opt", alts |-> alts, set |-> {}, neg |-> FALSE, min |-> 0]
\* (?:a\s+)?
OptLitWs(alts) == [k |-> "optws", alts |-> alts, set |-> {}, neg |-> FALSE, min |-> 0]
\* [set]+ or [set]* (min = 1 or 0), [^set] when neg
Run(set, neg, min) == [k |-> "run", alts |-> {}, set |-> set, neg |-> neg, min |-> min]

LitEnds(t, i, alts) ==
    {i + Len(x) : x \in {y \in alts : i + Len(y) - 1 <= Len(t)
                                      /\ SubSeq(t, i, i + Len(y) - 1) = y}}

RunEnds(t, i, set, neg, min) ==
    {p \in (i + min)..(Len(t) + 1) :
        \A q \in i..(p - 1) : (SubSeq(t, q, q) \in set) # neg}

AtomEnds(t, i, a) ==
    CASE a.k = "lit"   -> LitEnds(t, i, a.alts)
      [] a.k = "opt"   -> {i} \cup LitEnds(t, i, a.alts)
      [] a.k = "optws" -> {i} \cup UNION {RunEnds(t, p, Whitespace, FALSE, 1) :
                                            p \in LitEnds(t, i, a.alts)}
      [] a.k = "run"   -> RunEnds(t, i, a.set, a.neg, a.min)
      [] a.k = "bol"   -> IF i = 1 \/ SubSeq(t, i - 1, i - 1) = "\n" THEN {i} ELSE {}

RECURSIVE Ends(_, _, _, _)
Ends(t, i, pat, j) ==
    IF j > Len(pat) THEN {i}
    ELSE UNION {Ends(t, p, pat, j + 1) : p \in AtomEnds(t, i, pat[j])}

\* The start positions at which pat matches in t.  re.findall returns the
\* leftmost non-overlapping matches among them, so the list it returns is
\* empty exactly when this set is; the comparison reads only that.
Matches(t, pat) == {i \in 1..Len(t) : Ends(t, i, pat, 1) # {}}

Ws1 == Run(Whitespace, FALSE, 1)
Ws0 == Run(Whitespace, FALSE, 0)
Word1 == Run(WordChars, FALSE, 1)

\* r'def\s+(\w+)\s*\('
PyFunctionRe == <<Lit({"def"}), Ws1, Word1, Ws0, Lit({"("})>>
\* r'class\s+(\w+)'
ClassRe == <<Lit({"class"}), Ws1, Word1>>
\* r'(if|for|while|try|with)\s+'
PyControlRe == <<Lit({"if", "for", "while", "try", "with"}), Ws1>>
\* r'(?:public|private|protected)?\s*(?:static\s+)?(?:final\s+)?(?:void|int|...)\s+(\w+)\s*\('
JavaFunctionRe ==
    <<OptLit({"public", "private", "protected"}), Ws0, OptLitWs({"static"}),
      OptLitWs({"final"}),
      Lit({"void", "int", "String", "boolean", "double", "float", "long",
           "short", "byte", "char"}),
      Ws1, Word1, Ws0, Lit({"("})>>
\* r'(if|for|while|try|switch)\s*\('
ParenControlRe == <<Lit({"if", "for", "while", "try", "switch"}), Ws0, Lit({"("})>>
\* r'(if|for|while|try|switch)\s+'
JsControlRe == <<Lit({"if", "for", "while", "try", "switch"}), Ws1>>
\* r'function\s+(\w+)|(\w+)\s*[:=]\s*function|(\w+)\s*[:=]\s*\([^)]*\)\s*=>'
JsFunctionRe1 == <<Lit({"function"}), Ws1, Word1>>
JsFunctionRe2 == <<Word1, Ws0, Lit({":", "="}), Ws0, Lit({"function"})>>
JsFunctionRe3 ==
    <<Word1, Ws0, Lit({":", "="}), Ws0, Lit({"("}), Run({")"}, TRUE, 0),
      Lit({")"}), Ws0, Lit({"=>"})>>

\* _extract_structural_elements: the three element lists the comparison reads
\* (imports and variables are extracted by the code and read by nothing)
ExtractStructuralElements(code, language) ==
    CASE language = "py" ->
           [functions |-> Matches(code, PyFunctionRe),
            classes |-> Matches(code, ClassRe),
            control_structures |-> Matches(code, PyControlRe)]
      [] language = "java" ->
           [functions |-> Matches(code, JavaFunctionRe),
            classes |-> Matches(code, ClassRe),
            control_structures |-> Matches(code, ParenControlRe)]
      [] language = "js" ->
           [functions |-> Matches(code, JsFunctionRe1) \cup Matches(code, JsFunctionRe2)
                            \cup Matches(code, JsFunctionRe3),
            classes |-> Matches(code, ClassRe),
            control_structures |-> Matches(code, ParenControlRe)
                                     \cup Matches(code, JsControlRe)]
      [] OTHER ->
           [functions |-> {}, classes |-> {}, control_structures |-> {}]

-----------------------------------------------------------------------------
(* File contents *)

\* the lines file contents are made of
SourceLines ==
    {"def foo(x): return x",
     "class Bar: pass",
     "if (x): y = 1",
     "x = 1",
     "",
     "public void run() { }",
     "function f() { }"}

\* every content of at most n lines, each line ended by a newline
RECURSIVE ContentsUpTo(_)
ContentsUpTo(n) ==
    IF n = 0 THEN {""}
    ELSE LET shorter == ContentsUpTo(n - 1)
         IN  shorter \cup {c \o l \o "\n" : c \in shorter, l \in SourceLines}

Contents == ContentsUpTo(MaxLines)

LongerContents == ContentsUpTo(MaxLines + 1)

Suffixes == {".py", ".PY", ".java", ".js", ""}

File(suffix, readable, content) ==
    [suffix |-> suffix, readable |-> readable, content |-> content]

LineCount(content) == Count(content, "\n")

-----------------------------------------------------------------------------
(* SemanticValidator *)

\* ast.dump(ast.parse(line), annotate_fields=False, include_attributes=False)
\* of the statements CPython parses; it raises SyntaxError on every other
\* non-blank line of SourceLines
PyStatementDump ==
    [l \in {"def foo(x): return x", "class Bar: pass", "if (x): y = 1", "x = 1"} |->
        CASE l = "def foo(x): return x" ->
               "FunctionDef('foo', arguments([], [arg('x')]), [Return(Name('x', Load()))], [])"
          [] l = "class Bar: pass" -> "ClassDef('Bar', [], [], [Pass()], [])"
          [] l = "if (x): y = 1" ->
               "If(Name('x', Load()), [Assign([Name('y', Store())], Constant(1))], [])"
          [] l = "x = 1" -> "Assign([Name('x', Store())], Constant(1))"]

\* ast.parse(code) succeeds
PyParses(code) ==
    \A i \in DOMAIN SplitLines(code) :
        LET l == SplitLines(code)[i] IN IsBlank(l) \/ l \in DOMAIN PyStatementDump

\* ", ".join(texts)
RECURSIVE Join(_)
Join(texts) ==
    IF texts = <<>> THEN ""
    ELSE IF Len(texts) = 1 THEN texts[1]
    ELSE texts[1] \o ", " \o Join(Tail(texts))

\* ast.dump(ast.parse(code), annotate_fields=False, include_attributes=False)
PyAstDump(code) ==
    LET statements == SelectSeq(SplitLines(code), LAMBDA l : ~IsBlank(l))
    IN  "Module([" \o Join([i \in DOMAIN statements |-> PyStatementDump[statements[i]]])
                  \o "], [])"

\* _validate_python_to_python
ValidatePythonToPython(orig, conv) ==
    IF ~orig.readable \/ ~conv.readable
      THEN Verdict("SemanticValidator", FALSE,
                   "Error during AST comparison: [Errno 2] No such file or directory")
    ELSE IF ~PyParses(orig.content) \/ ~PyParses(conv.content)
      THEN Verdict("SemanticValidator", FALSE,
                   "Error during AST comparison: invalid syntax")
    ELSE IF PyAstDump(orig.content) = PyAstDump(conv.content)
      THEN Verdict("SemanticValidator", TRUE, "ASTs match.")
    ELSE Verdict("SemanticValidator", FALSE, "ASTs differ structurally.")

\* _compare_structural_elements, with the control-structure test applied to
\* every pair of languages
CompareStructuralElementsStrict(original, converted, source_lang, target_lang) ==
    IF original.functions # {} /\ converted.functions = {}
      THEN <<FALSE, "Functions missing in " \o target_lang \o " conversion">>
    ELSE IF original.classes # {} /\ converted.classes = {}
      THEN <<FALSE, "Classes missing in " \o target_lang \o " conversion">>
    ELSE IF original.control_structures # {} /\ converted.control_structures = {}
      THEN <<FALSE, "Control structures missing in " \o target_lang \o " conversion">>
    ELSE <<TRUE, "Cross-language conversion from " \o source_lang \o " to "
                   \o target_lang \o " preserves key structural elements">>

\* _compare_structural_elements
CompareStructuralElements(original, converted, source_lang, target_lang) ==
    IF original.functions # {} /\ converted.functions = {}
      THEN <<FALSE, "Functions missing in " \o target_lang \o " conversion">>
    ELSE IF original.classes # {} /\ converted.classes = {}
      THEN <<FALSE, "Classes missing in " \o target_lang \o " conversion">>
    ELSE IF /\ original.control_structures # {}
            /\ converted.control_structures = {}
            /\ source_lang = target_lang
      THEN <<FALSE, "Control structures missing in " \o target_lang \o " conversion">>
    ELSE <<TRUE, "Cross-language conversion from " \o source_lang \o " to "
                   \o target_lang \o " preserves key structural elements">>

\* the structural elements of every content under every language tag
StructuralElements ==
    [language \in {SuffixTag(suffix) : suffix \in Suffixes} |->
        [code \in Contents |-> ExtractStructuralElements(code, language)]]

\* _validate_cross_language
ValidateCrossLanguage(orig, conv, source_lang, target_lang) ==
    IF ~orig.readable \/ ~conv.readable
      THEN Verdict("SemanticValidator", TRUE,
                   "Cross-language validation error: [Errno 2] No such file or directory"
                   \o ". Defaulting to PASS.")
    ELSE LET cmp == CompareStructuralElements(
                        StructuralElements[source_lang][orig.content],
                        StructuralElements[target_lang][conv.content],
                        source_lang, target_lang)
         IN  Verdict("SemanticValidator", cmp[1], cmp[2])

\* SemanticValidator.validate
SemanticValidate(orig, conv) ==
    LET source_lang == LangTag(orig)
        target_lang == LangTag(conv)
    IN  IF source_lang = target_lang /\ source_lang = "py"
          THEN ValidatePythonToPython(orig, conv)
        ELSE ValidateCrossLanguage(orig, conv, source_lang, target_lang)

-----------------------------------------------------------------------------
(* PerformanceAnalyzer *)

\* _analyze_complexity.  complexity_score is the float
\* functions*2 + classes*3 + control_structures*1 + non_empty_lines*0.1, kept
\* as <<whole, lines>>: the integer sum of the first three terms and the
\* non-empty line count that 0.1 multiplies.
AnalyzeComplexity(code, language) ==
    LET lines == SplitLines(code)
        non_empty_lines == SelectSeq(lines, LAMBDA line : ~IsBlank(line))
        functions ==
            CASE language = "py" -> Count(code, "def ")
              [] language = "java" -> Count(code, "public ") + Count(code, "private ")
                                        + Count(code, "protected ")
              [] language = "js" -> Count(code, "function ") + Count(code, "=>")
              [] OTHER -> 0
        classes == Count(code, "class ")
        control_structures ==
            Count(code, "if ") + Count(code, "for ") + Count(code, "while ")
              + Count(code, "try ") + Count(code, "switch ") + Count(code, "case ")
    IN  [total_lines |-> Len(lines),
         non_empty_lines |-> Len(non_empty_lines),
         functions |-> functions,
         classes |-> classes,
         control_structures |-> control_structures,
         complexity_score |->
             <<functions * 2 + classes * 3 + control_structures * 1,
               Len(non_empty_lines)>>]

\* ten times the exact value of a score
Tenths(score) == 10 * score[1] + score[2]

\* The pairs <<original whole, original lines, converted whole, converted
\* lines>> whose exact ratio is 3 and whose binary64 quotient is
\* 3.0000000000000004, for whole <= 16 and lines <= 5: n*0.1 and the sum are
\* rounded before the division, e.g. (3*0.1)/(1*0.1) > 3 in CPython.  No pair
\* in that range has a quotient on the other side of 0.3 than its exact ratio.
RoundsAboveThree ==
    {<<0, 1, 0, 3>>, <<1, 4, 4, 2>>, <<4, 1, 12, 3>>, <<5, 1, 15, 3>>}

\* complexity_ratio < 0.3, where complexity_ratio is
\* converted score / original score if original score > 0 else 1
RatioBelowLimit(original_score, converted_score) ==
    IF Tenths(original_score) > 0
      THEN 10 * Tenths(converted_score) < 3 * Tenths(original_score)
      ELSE FALSE

\* complexity_ratio > 3, for the same complexity_ratio
RatioAboveLimit(original_score, converted_score) ==
    IF Tenths(original_score) > 0
      THEN \/ Tenths(converted_score) > 3 * Tenths(original_score)
           \/ <<original_score[1], original_score[2],
                converted_score[1], converted_score[2]>> \in RoundsAboveThree
      ELSE FALSE

\* _compare_complexity_metrics
CompareComplexityMetrics(original, converted, source_lang, target_lang) ==
    IF original.functions > 0 /\ 2 * converted.functions < original.functions
      THEN <<FALSE, "Too many functions missing in " \o target_lang \o " conversion">>
    ELSE IF original.classes > 0 /\ converted.classes = 0
      THEN <<FALSE, "Classes missing in " \o target_lang \o " conversion">>
    ELSE IF /\ original.control_structures > 0
            /\ 10 * converted.control_structures < 3 * original.control_structures
            /\ source_lang = target_lang
      THEN <<FALSE, "Too many control structures missing in " \o target_lang
                      \o " conversion">>
    ELSE IF RatioBelowLimit(original.complexity_score, converted.complexity_score)
      THEN <<FALSE, "Code too simplified in " \o target_lang \o " conversion">>
    ELSE IF RatioAboveLimit(original.complexity_score, converted.complexity_score)
      THEN <<FALSE, "Code overly complex in " \o target_lang \o " conversion">>
    ELSE <<TRUE, "Cross-language conversion from " \o source_lang \o " to "
                   \o target_lang \o " maintains appropriate complexity">>

\* the complexity metrics of every content under every language tag
ComplexityMetrics ==
    [language \in {SuffixTag(suffix) : suffix \in Suffixes} |->
        [code \in LongerContents |-> AnalyzeComplexity(code, language)]]

\* _validate_cross_language_complexity
ValidateCrossLanguageComplexity(orig, conv, source_lang, target_lang) ==
    IF ~orig.readable \/ ~conv.readable
      THEN Verdict("PerformanceAnalyzer", TRUE,
                   "Cross-language complexity analysis error: "
                   \o "[Errno 2] No such file or directory. Defaulting to PASS.")
    ELSE LET cmp == CompareComplexityMetrics(
                        ComplexityMetrics[source_lang][orig.content],
                        ComplexityMetrics[target_lang][conv.content],
                        source_lang, target_lang)
         IN  Verdict("PerformanceAnalyzer", cmp[1], cmp[2])

\* What subprocess.run([sys.executable, file], timeout=10) can do: time out,
\* fail to start (any other exception), or exit after a measured duration.
\* The interpreter exits non-zero on a file it cannot read or parse.
TimedOut == [kind |-> "timeout", code |-> 0, time |-> 0]
SpawnError == [kind |-> "error", code |-> 0, time |-> 0]
Exit(code, time) == [kind |-> "exit", code |-> code, time |-> time]
NotRun == [kind |-> "not run", code |-> 0, time |-> 0]

RunOutcomes(file) ==
    {TimedOut, SpawnError}
      \cup {Exit(1, t) : t \in 1..MaxDuration}
      \cup IF file.readable /\ PyParses(file.content)
             THEN {Exit(0, t) : t \in 1..MaxDuration}
             ELSE {}

\* f"{t:.3f}" of a duration of t whole clock units
Seconds(t) == ToString(t) \o ".000"

\* conv_time <= 2 * orig_time, with the bound left out of the acceptable range
PerformanceAcceptableStrict(conv_time, orig_time) == conv_time < 2 * orig_time

\* conv_time <= 2 * orig_time
PerformanceAcceptable(conv_time, orig_time) == conv_time <= 2 * orig_time

\* _validate_python_performance, the original's run ending in orig_run and
\* the converted file's (when it is reached) in conv_run
ValidatePythonPerformance(orig_run, conv_run) ==
    IF orig_run.kind = "timeout"
      THEN Verdict("PerformanceAnalyzer", FALSE, "Execution timed out.")
    ELSE IF orig_run.kind = "error"
      THEN Verdict("PerformanceAnalyzer", FALSE,
                   "Error during performance analysis: [Errno 12] Cannot allocate memory")
    ELSE IF orig_run.code # 0
      THEN Verdict("PerformanceAnalyzer", FALSE,
                   "Original file failed to run: Traceback (most recent call last)")
    ELSE IF conv_run.kind = "timeout"
      THEN Verdict("PerformanceAnalyzer", FALSE, "Execution timed out.")
    ELSE IF conv_run.kind = "error"
      THEN Verdict("PerformanceAnalyzer", FALSE,
                   "Error during performance analysis: [Errno 12] Cannot allocate memory")
    ELSE IF conv_run.code # 0
      THEN Verdict("PerformanceAnalyzer", FALSE,
                   "Converted file failed to run: Traceback (most recent call last)")
    ELSE IF PerformanceAcceptable(conv_run.time, orig_run.time)
      THEN Verdict("PerformanceAnalyzer", TRUE,
                   "Converted file ran in " \o Seconds(conv_run.time)
                   \o "s, original in " \o Seconds(orig_run.time)
                   \o "s. Performance acceptable.")
    ELSE Verdict("PerformanceAnalyzer", FALSE,
                 "Converted file ran in " \o Seconds(conv_run.time)
                 \o "s, original in " \o Seconds(orig_run.time)
                 \o "s. Performance regression detected.")

\* the subprocess.run calls made when the converted file is run whatever the
\* original's run did
ExecutionsBoth(orig_run, conv_run) ==
    <<[script |-> "original", run |-> orig_run],
      [script |-> "converted", run |-> conv_run]>>

\* the subprocess.run calls _validate_python_performance makes, in order, each
\* with what it did
Executions(orig_run, conv_run) ==
    IF orig_run.kind = "exit" /\ orig_run.code = 0
      THEN <<[script |-> "original", run |-> orig_run],
             [script |-> "converted", run |-> conv_run]>>
      ELSE <<[script |-> "original", run |-> orig_run]>>

\* whether PerformanceAnalyzer.validate takes the execution branch
TakesExecutionBranch(orig, conv) ==
    LangTag(orig) = LangTag(conv) /\ LangTag(orig) = "py"

\* PerformanceAnalyzer.validate
PerformanceValidate(orig, conv, orig_run, conv_run) ==
    IF TakesExecutionBranch(orig, conv)
      THEN ValidatePythonPerformance(orig_run, conv_run)
      ELSE ValidateCrossLanguageComplexity(orig, conv, LangTag(orig), LangTag(conv))

-----------------------------------------------------------------------------
(* ValidationController *)

\* __init__: self.strict_mode = validation_config.get("strict_mode", strict_mode)
\* the mode __init__ keeps, the constructor argument winning over the
\* configuration
EffectiveStrictModeArgumentFirst(arg, cfg) == arg

EffectiveStrictMode(arg, cfg) == IF cfg = <<>> THEN arg ELSE cfg[1]

\* the signatures of the rescue override
RescueKeywords ==
    {"only supports python", "cross-language", "language-specific", "defaulting to pass"}

\* run_all's override of one verdict, matching the signatures in the detail
\* as written instead of in its lower-cased copy
RescueCaseSensitive(result, is_cross_language, strict) ==
    IF /\ is_cross_language /\ ~strict
       /\ ~result.passed
       /\ \E keyword \in RescueKeywords : Contains(result.details, keyword)
      THEN [result EXCEPT !.passed = TRUE,
                          !.details = "Cross-language conversion: " \o result.details]
      ELSE result

\* run_all's override of one verdict, applied in strict mode too
RescueInEveryMode(result, is_cross_language, strict) ==
    IF /\ is_cross_language
       /\ ~result.passed
       /\ \E keyword \in RescueKeywords : Contains(Lower(result.details), keyword)
      THEN [result EXCEPT !.passed = TRUE,
                          !.details = "Cross-language conversion: " \o result.details]
      ELSE result

\* run_all's override of one verdict
Rescue(result, is_cross_language, strict) ==
    IF /\ is_cross_language /\ ~strict
       /\ ~result.passed
       /\ \E keyword \in RescueKeywords : Contains(Lower(result.details), keyword)
      THEN [result EXCEPT !.passed = TRUE,
                          !.details = "Cross-language conversion: " \o result.details]
      ELSE result

PassedCount(rs) == Cardinality({i \in DOMAIN rs : rs[i].passed})

\* run_all's aggregate with a quorum of one
OverallPassedAny(rs, is_cross_language, strict) ==
    IF is_cross_language /\ ~strict
      THEN PassedCount(rs) >= 1
      ELSE \A i \in DOMAIN rs : rs[i].passed

\* run_all's aggregate with the quorum applied in every mode
OverallPassedQuorumAlways(rs, is_cross_language, strict) ==
    PassedCount(rs) >= 2

\* run_all's aggregate with the quorum lowered to the number of verdicts
OverallPassedQuorumOfRun(rs, is_cross_language, strict) ==
    IF is_cross_language /\ ~strict
      THEN PassedCount(rs) >= Min({2, Len(rs)})
      ELSE \A i \in DOMAIN rs : rs[i].passed

\* run_all's aggregate
OverallPassed(rs, is_cross_language, strict) ==
    IF is_cross_language /\ ~strict
      THEN PassedCount(rs) >= 2
      ELSE \A i \in DOMAIN rs : rs[i].passed

IsCrossLanguage == LangTag(original_file) # LangTag(converted_file)

\* the loop body after validator.validate returned `result`
Record(result) ==
    LET rescued == Rescue(result, IsCrossLanguage, strict_mode)
    IN  /\ returned' = Append(returned, result)
        /\ results' = Append(results, rescued)
        /\ matrix' = Append(matrix, [validator |-> rescued.name,
                                     passed |-> rescued.passed,
                                     details |-> rescued.details])
        /\ idx' = idx + 1
        /\ pc' = pc

\* the loop reaching validator i, without the test of skip_validators
RunningRegardless(i) ==
    /\ pc = "loop"
    /\ idx = i

\* the loop reaching validator i, which is not skipped
Running(i) ==
    /\ pc = "loop"
    /\ idx = i
    /\ ValidatorNames[i] \notin skip_validators

\* the outcomes of the judging-model call in one run_all
RunResponses ==
    {"PASS", "The conversion FAILS.", "Passes, no failures found.", "Looks fine.",
     "FAIL: Language-Specific idioms were lost.", ""}

\* str(e) of the errors the judging-model call raises
ErrorTexts == {"Connection error.", "Incorrect API key provided."}

LLMOutcomesOver(texts) ==
    {[kind |-> "text", text |-> t] : t \in texts}
      \cup {[kind |-> "none", text |-> ""]}
      \cup {[kind |-> "error", text |-> e] : e \in ErrorTexts}

\* `continue` for a validator named in skip_validators
SkipValidator ==
    /\ UNCHANGED <<analysis, client>>
    /\ pc = "loop"
    /\ idx \in DOMAIN ValidatorNames
    /\ ValidatorNames[idx] \in skip_validators
    /\ idx' = idx + 1
    /\ UNCHANGED <<original_file, converted_file, strict_arg, cfg_strict, strict_mode,
                   skip_validators, pc, llm_outcome, exec_log, returned, results,
                   matrix, report>>

\* the loop iteration of LLMValidator
RunLLMValidator ==
    /\ UNCHANGED <<analysis, client>>
    /\ Running(1)
    /\ \E outcome \in LLMOutcomesOver(RunResponses) :
         LET result == LLMValidate(original_file, converted_file, outcome)
         IN  IF result.raised
               THEN /\ pc' = "raised"
                    /\ UNCHANGED <<llm_outcome, idx, returned, results, matrix>>
               ELSE /\ llm_outcome' = outcome
                    /\ Record(result)
    /\ UNCHANGED <<original_file, converted_file, strict_arg, cfg_strict, strict_mode,
                   skip_validators, exec_log, report>>

\* the loop iteration of SemanticValidator
RunSemanticValidator ==
    /\ UNCHANGED <<analysis, client>>
    /\ Running(2)
    /\ Record(SemanticValidate(original_file, converted_file))
    /\ UNCHANGED <<original_file, converted_file, strict_arg, cfg_strict, strict_mode,
                   skip_validators, llm_outcome, exec_log, report>>

\* the loop iteration of PerformanceAnalyzer
RunPerformanceAnalyzer ==
    /\ UNCHANGED <<analysis, client>>
    /\ Running(3)
    /\ IF TakesExecutionBranch(original_file, converted_file)
         THEN \E orig_run \in RunOutcomes(original_file) :
              \E conv_run \in RunOutcomes(converted_file) :
                /\ Record(PerformanceValidate(original_file, converted_file,
                                              orig_run, conv_run))
                /\ exec_log' = exec_log \o Executions(orig_run, conv_run)
         ELSE /\ Record(PerformanceValidate(original_file, converted_file,
                                            NotRun, NotRun))
              /\ exec_log' = exec_log
    /\ UNCHANGED <<original_file, converted_file, strict_arg, cfg_strict, strict_mode,
                   skip_validators, llm_outcome, report>>

\* the aggregate and the return statement
Return ==
    /\ UNCHANGED <<analysis, client>>
    /\ pc = "loop"
    /\ idx = Len(ValidatorNames) + 1
    /\ report' = [returned |-> TRUE,
                  overall_passed |-> OverallPassed(results, IsCrossLanguage, strict_mode),
                  results |-> results,
                  matrix |-> matrix,
                  is_cross_language |-> IsCrossLanguage,
                  strict_mode |-> strict_mode]
    /\ pc' = "done"
    /\ UNCHANGED <<original_file, converted_file, strict_arg, cfg_strict, strict_mode,
                   skip_validators, idx, llm_outcome, exec_log, returned, results,
                   matrix>>

\* the file pairs run_all is called on
RunOriginals ==
    {File(".py", TRUE, "def foo(x): return x\n"),
     File(".PY", TRUE, "x = 1\n"),
     File(".java", TRUE, "public void run() { }\nclass Bar: pass\n"),
     File(".py", FALSE, "")}

RunConverted ==
    {File(".java", TRUE, "public void run() { }\n"),
     File(".java", TRUE, "class Bar: pass\n"),
     File(".py", TRUE, "def foo(x): return x\n"),
     File(".py", TRUE, "x = 1\n"),
     File(".js", FALSE, "")}

\* the state when run_all is entered on a constructed controller
Init ==
    /\ original_file \in RunOriginals
    /\ converted_file \in RunConverted
    /\ strict_arg \in BOOLEAN
    /\ cfg_strict \in {<<>>, <<TRUE>>, <<FALSE>>}
    /\ strict_mode = EffectiveStrictMode(strict_arg, cfg_strict)
    /\ skip_validators \in SUBSET {ValidatorNames[i] : i \in DOMAIN ValidatorNames}
    /\ pc = "loop"
    /\ idx = 1
    /\ llm_outcome = NoOutcome
    /\ exec_log = <<>>
    /\ returned = <<>>
    /\ results = <<>>
    /\ matrix = <<>>
    /\ report = NoReport
    /\ NoAnalysis
    /\ NoCompletion

Next ==
    \/ SkipValidator
    \/ RunLLMValidator
    \/ RunSemanticValidator
    \/ RunPerformanceAnalyzer
    \/ Return

Spec == Init /\ [][Next]_vars

-----------------------------------------------------------------------------
(* One call of a single strategy on a pair of readable files *)

IdleValidation ==
    /\ strict_arg = FALSE
    /\ cfg_strict = <<>>
    /\ strict_mode = FALSE
    /\ skip_validators = {}
    /\ pc = "ready"
    /\ idx = 1
    /\ llm_outcome = NoOutcome
    /\ exec_log = <<>>
    /\ returned = <<>>
    /\ results = <<>>
    /\ matrix = <<>>
    /\ report = NoReport

Idle == IdleValidation /\ NoAnalysis /\ NoCompletion

StaticSuffixes == {".py", ".java", ".js", ""}

InitStatic ==
    /\ original_file \in {File(x, TRUE, c) : x \in StaticSuffixes, c \in Contents}
    /\ converted_file \in {File(x, TRUE, c) : x \in StaticSuffixes, c \in Contents}
    /\ Idle

\* SemanticValidator().validate(original_file, converted_file)
CallSemanticValidator ==
    /\ UNCHANGED <<analysis, client>>
    /\ pc = "ready"
    /\ returned' = <<SemanticValidate(original_file, converted_file)>>
    /\ pc' = "done"
    /\ UNCHANGED <<original_file, converted_file, strict_arg, cfg_strict, strict_mode,
                   skip_validators, idx, llm_outcome, exec_log, results, matrix, report>>

\* PerformanceAnalyzer().validate(original_file, converted_file) on a pair
\* it analyses statically
CallComplexityAnalysis ==
    /\ UNCHANGED <<analysis, client>>
    /\ pc = "ready"
    /\ ~TakesExecutionBranch(original_file, converted_file)
    /\ returned' = <<PerformanceValidate(original_file, converted_file, NotRun, NotRun)>>
    /\ pc' = "done"
    /\ UNCHANGED <<original_file, converted_file, strict_arg, cfg_strict, strict_mode,
                   skip_validators, idx, llm_outcome, exec_log, results, matrix, report>>

NextStatic == CallSemanticValidator \/ CallComplexityAnalysis

SpecStatic == InitStatic /\ [][NextStatic]_vars

-----------------------------------------------------------------------------
(* The complexity analysis while the original file is being extended *)

InitComplexity ==
    /\ original_file \in {File(x, TRUE, "") : x \in StaticSuffixes}
    /\ converted_file \in {File(x, TRUE, c) : x \in StaticSuffixes, c \in LongerContents}
    /\ Idle

\* one more line is written at the end of the original file
GrowOriginal ==
    /\ UNCHANGED <<analysis, client>>
    /\ pc = "ready"
    /\ LineCount(original_file.content) < MaxLines
    /\ \E line \in SourceLines :
         original_file' = [original_file EXCEPT !.content = @ \o line \o "\n"]
    /\ UNCHANGED <<converted_file, strict_arg, cfg_strict, strict_mode, skip_validators,
                   pc, idx, llm_outcome, exec_log, returned, results, matrix, report>>

NextComplexity == GrowOriginal \/ CallComplexityAnalysis

SpecComplexity == InitComplexity /\ [][NextComplexity]_vars

-----------------------------------------------------------------------------
(* One call of LLMValidator.validate *)

\* the pieces responses of the judging model are made of
ResponseChunks ==
    {"PASS", "Fail", "pa", "ss", "fa", "iL", " ", "ok", "Cross-Language", "."}

RECURSIVE ResponsesUpTo(_)
ResponsesUpTo(n) ==
    IF n = 0 THEN {""}
    ELSE LET shorter == ResponsesUpTo(n - 1)
         IN  shorter \cup {r \o c : r \in shorter, c \in ResponseChunks}

InitJudge ==
    /\ original_file \in {File(".py", r, IF r THEN "x = 1\n" ELSE "") : r \in BOOLEAN}
    /\ converted_file \in {File(".java", r, IF r THEN "class Bar: pass\n" ELSE "") :
                             r \in BOOLEAN}
    /\ Idle

\* LLMValidator().validate(original_file, converted_file)
CallLLMValidator ==
    /\ UNCHANGED <<analysis, client>>
    /\ pc = "ready"
    /\ \E outcome \in LLMOutcomesOver(ResponsesUpTo(MaxChunks)) :
         LET result == LLMValidate(original_file, converted_file, outcome)
         IN  IF result.raised
               THEN /\ pc' = "raised"
                    /\ UNCHANGED <<llm_outcome, returned>>
               ELSE /\ pc' = "done"
                    /\ llm_outcome' = outcome
                    /\ returned' = <<result>>
    /\ UNCHANGED <<original_file, converted_file, strict_arg, cfg_strict, strict_mode,
                   skip_validators, idx, exec_log, results, matrix, report>>

NextJudge == CallLLMValidator

SpecJudge == InitJudge /\ [][NextJudge]_vars

-----------------------------------------------------------------------------
(* Properties of ValidationController.run_all, checked under Spec *)

PassingVerdicts == {i \in DOMAIN matrix : matrix[i].passed}

\* C1: when all three strategies ran and the session is cross-language and
\* not strict, overall_passed is true exactly when at least two of the three
\* recorded verdicts (after the rescue override) are passing.
C1_QuorumOfThree ==
    (pc = "done" /\ Len(matrix) = 3 /\ IsCrossLanguage /\ ~strict_mode)
      => /\ Cardinality(PassingVerdicts) \in {2, 3} => report.overall_passed
         /\ Cardinality(PassingVerdicts) \in {0, 1} => ~report.overall_passed

\* a lenient cross-language run of all three strategies where exactly two
\* recorded verdicts pass and the report says passed
C1_TwoOfThreePass ==
    /\ pc = "done" /\ Len(matrix) = 3 /\ IsCrossLanguage /\ ~strict_mode
    /\ Cardinality(PassingVerdicts) = 2
    /\ report.overall_passed

\* C2: when the effective mode is strict or both files have the same
\* language tag, overall_passed is true if and only if every strategy that
\* ran returned a passing verdict.
C2_StrictRequiresAll ==
    (pc = "done" /\ (strict_mode \/ ~IsCrossLanguage))
      => (report.overall_passed <=> \A i \in DOMAIN returned : returned[i].passed)

\* a strict cross-language run where two of three strategies passed and the
\* report says failed
C2_OneFailureFailsStrictRun ==
    /\ pc = "done" /\ strict_mode /\ IsCrossLanguage
    /\ Len(returned) = 3
    /\ Cardinality({i \in DOMAIN returned : returned[i].passed}) = 2
    /\ ~report.overall_passed

\* whether the verdict the i-th strategy that ran returned is a fail whose
\* detail holds one of the signatures, compared case-insensitively
HasRescueSignature(i) ==
    /\ ~returned[i].passed
    /\ \E keyword \in {"only supports python", "cross-language", "language-specific",
                       "defaulting to pass"} :
         Contains(Lower(returned[i].details), keyword)

\* C3: in a cross-language session that is not strict, every failing verdict
\* whose detail contains one of the signatures (case-insensitively) is
\* recorded as passed with its detail prefixed by "Cross-language
\* conversion: ", and counts as passing in the aggregate.
C3_RescueOverride ==
    (IsCrossLanguage /\ ~strict_mode)
      => /\ \A i \in DOMAIN returned :
              HasRescueSignature(i)
                => /\ results[i].passed
                   /\ matrix[i].passed
                   /\ matrix[i].details
                        = "Cross-language conversion: " \o returned[i].details
         /\ pc = "done"
              => (report.overall_passed
                    <=> Cardinality({i \in DOMAIN returned :
                                       returned[i].passed \/ HasRescueSignature(i)}) >= 2)

\* a lenient cross-language run where a verdict was rescued, exactly one
\* other strategy passed, and the report says passed
C3_RescuedVerdictDecides ==
    /\ pc = "done" /\ IsCrossLanguage /\ ~strict_mode
    /\ \E i \in DOMAIN returned : HasRescueSignature(i)
    /\ Cardinality({i \in DOMAIN returned : returned[i].passed}) = 1
    /\ report.overall_passed

\* C4: run_all ends with a well-formed report (overall_passed, matrix,
\* is_cross_language, strict_mode) for every outcome of the strategies; no
\* error raised inside a strategy escapes run_all.
C4_NoErrorEscapes ==
    /\ pc # "raised"
    /\ pc = "done"
         => /\ report.returned
            /\ report.overall_passed \in BOOLEAN
            /\ report.matrix = matrix
            /\ report.is_cross_language = IsCrossLanguage
            /\ report.strict_mode = strict_mode

\* run_all left by an error of LLMValidator.validate on an unreadable file
C4_RaisedOnUnreadableFile ==
    /\ pc = "raised"
    /\ ~original_file.readable \/ ~converted_file.readable
    /\ report = NoReport

-----------------------------------------------------------------------------
(* Properties of LLMValidator.validate, checked under SpecJudge *)

\* C5: for every response text, the verdict follows the ordered
\* case-insensitive keyword tests: 'pass' without 'fail' gives pass, 'fail'
\* gives fail (also next to 'pass'), neither gives pass.
C5_KeywordHeuristics ==
    (pc = "done" /\ llm_outcome.kind = "text")
      => LET text == Lower(llm_outcome.text)
             has_pass == Contains(text, "pass")
             has_fail == Contains(text, "fail")
         IN  /\ (has_pass /\ ~has_fail) => returned[1].passed
             /\ has_fail => ~returned[1].passed
             /\ (~has_pass /\ ~has_fail) => returned[1].passed

\* a response holding both keywords, in mixed case, judged a fail
C5_FailWinsOverPass ==
    /\ pc = "done" /\ llm_outcome.kind = "text"
    /\ Contains(Lower(llm_outcome.text), "pass")
    /\ Contains(Lower(llm_outcome.text), "fail")
    /\ ~Contains(llm_outcome.text, "fail")
    /\ ~returned[1].passed

\* C6: when the judging-model call raises an error, validate does not
\* raise: it returns a passing verdict whose detail explains the error.
C6_ModelErrorFailsOpen ==
    llm_outcome.kind = "error"
      => /\ pc = "done"
         /\ returned[1].name = "LLMValidator"
         /\ returned[1].passed
         /\ Contains(returned[1].details, llm_outcome.text)

\* a call whose model request raised and which returned a passing verdict
C6_ErrorVerdictReturned ==
    /\ pc = "done" /\ llm_outcome.kind = "error"
    /\ returned[1].passed
    /\ StartsWith(returned[1].details, "LLM validation error: ")

-----------------------------------------------------------------------------
(* Properties of SemanticValidator.validate, checked under SpecStatic *)

SemanticReturned == pc = "done" /\ returned[1].name = "SemanticValidator"

\* C7: validating a file against an identical copy with the same extension
\* returns a passing verdict, in the AST-dump branch and in the regex branch.
C7_Reflexive ==
    (SemanticReturned /\ original_file = converted_file) => returned[1].passed

\* a .py file that does not parse, validated against an identical copy
C7_UnparseableCopyFails ==
    /\ SemanticReturned /\ original_file = converted_file
    /\ LangTag(original_file) = "py"
    /\ ~PyParses(original_file.content)
    /\ ~returned[1].passed

OriginalElements == StructuralElements[LangTag(original_file)][original_file.content]
ConvertedElements == StructuralElements[LangTag(converted_file)][converted_file.content]

\* C8: in the regex branch the verdict fails if and only if the original
\* has a function and the converted file none, or the original has a class
\* and the converted file none, or the tags are equal and the original has a
\* control structure while the converted file has none; when the tags
\* differ, missing control structures never cause a fail.
C8_LenientStructuralPolicy ==
    (SemanticReturned
       /\ ~(LangTag(original_file) = "py" /\ LangTag(converted_file) = "py"))
      => (~returned[1].passed
            <=> \/ OriginalElements.functions # {} /\ ConvertedElements.functions = {}
                \/ OriginalElements.classes # {} /\ ConvertedElements.classes = {}
                \/ /\ LangTag(original_file) = LangTag(converted_file)
                   /\ OriginalElements.control_structures # {}
                   /\ ConvertedElements.control_structures = {})

\* a pair with different tags where only the original has control
\* structures and the verdict passes
C8_MissingControlTolerated ==
    /\ SemanticReturned
    /\ LangTag(original_file) # LangTag(converted_file)
    /\ OriginalElements.control_structures # {}
    /\ ConvertedElements.control_structures = {}
    /\ returned[1].passed

-----------------------------------------------------------------------------
(* Properties of the complexity analysis, checked under SpecComplexity *)

OriginalMetrics == ComplexityMetrics[LangTag(original_file)][original_file.content]
ConvertedMetrics == ComplexityMetrics[LangTag(converted_file)][converted_file.content]

\* ten times 2*functions + 3*classes + control_structures + 0.1*non_empty_lines
ExactTenths(metrics) ==
    10 * (2 * metrics.functions + 3 * metrics.classes + metrics.control_structures)
      + metrics.non_empty_lines

\* C9: in the static branch the verdict fails if and only if the original
\* has functions and converted/original function count < 0.5, or the
\* original has classes and the converted file none, or the tags are equal,
\* the original has control structures and converted/original
\* control-structure count < 0.3, or converted/original score ratio < 0.3,
\* or that ratio > 3.0 (the two ratio tests for an original score above 0).
C9_ComplexityPolicy ==
    (pc = "done" /\ returned[1].name = "PerformanceAnalyzer")
      => (~returned[1].passed
            <=> \/ /\ OriginalMetrics.functions > 0
                   /\ 2 * ConvertedMetrics.functions < OriginalMetrics.functions
                \/ OriginalMetrics.classes > 0 /\ ConvertedMetrics.classes = 0
                \/ /\ LangTag(original_file) = LangTag(converted_file)
                   /\ OriginalMetrics.control_structures > 0
                   /\ 10 * ConvertedMetrics.control_structures
                        < 3 * OriginalMetrics.control_structures
                \/ /\ ExactTenths(OriginalMetrics) > 0
                   /\ 10 * ExactTenths(ConvertedMetrics) < 3 * ExactTenths(OriginalMetrics)
                \/ /\ ExactTenths(OriginalMetrics) > 0
                   /\ ExactTenths(ConvertedMetrics) > 3 * ExactTenths(OriginalMetrics))

\* a converted file scoring exactly three times the original, judged overly
\* complex
C9_ExactlyThreefoldFails ==
    /\ pc = "done" /\ returned[1].name = "PerformanceAnalyzer"
    /\ ExactTenths(OriginalMetrics) > 0
    /\ ExactTenths(ConvertedMetrics) = 3 * ExactTenths(OriginalMetrics)
    /\ ~returned[1].passed
    /\ StartsWith(returned[1].details, "Code overly complex")

\* whether the pair of files passes the upper bound of the ratio check
UpperCompliant ==
    ~RatioAboveLimit(OriginalMetrics.complexity_score, ConvertedMetrics.complexity_score)

\* C10: for a fixed converted file, a pair that passes the upper bound of
\* the ratio check still passes it after any increase of the original's
\* score, whatever the original's score was, 0 included.
C10_UpperBoundMonotonic ==
    [][(/\ ~TakesExecutionBranch(original_file, converted_file)
        /\ converted_file' = converted_file
        /\ ExactTenths(OriginalMetrics') > ExactTenths(OriginalMetrics)
        /\ UpperCompliant)
         => UpperCompliant']_vars

\* an original of score 0.1, one line longer than an original of score 0,
\* with a converted file more than three times as complex
C10_FirstLineBreaksCompliance ==
    /\ pc = "ready"
    /\ ~TakesExecutionBranch(original_file, converted_file)
    /\ ExactTenths(OriginalMetrics) = 1
    /\ ~UpperCompliant

-----------------------------------------------------------------------------
(* Properties of the execution branch and of the loop of run_all, checked   *)
(* under Spec                                                               *)

\* whether the PerformanceAnalyzer has returned its verdict on two py files
ExecutionReturned ==
    /\ returned # <<>>
    /\ returned[Len(returned)].name = "PerformanceAnalyzer"
    /\ LangTag(original_file) = "py" /\ LangTag(converted_file) = "py"

ExitedZero(execution) == execution.run.kind = "exit" /\ execution.run.code = 0

\* C11: when both files have the tag py, the verdict passes if and only if
\* both scripts exit with code 0 within the timeout and the converted
\* script's duration is at most twice the original's; a non-zero exit code
\* of either script gives a fail.
C11_ExecutionPolicy ==
    ExecutionReturned
      => /\ returned[Len(returned)].passed
              <=> /\ Len(exec_log) = 2
                  /\ ExitedZero(exec_log[1]) /\ ExitedZero(exec_log[2])
                  /\ exec_log[2].run.time <= 2 * exec_log[1].run.time
         /\ \A i \in DOMAIN exec_log :
              (exec_log[i].run.kind = "exit" /\ exec_log[i].run.code # 0)
                => ~returned[Len(returned)].passed

\* a converted script that took exactly twice the original's time and passed
C11_TwiceAsSlowPasses ==
    /\ ExecutionReturned
    /\ Len(exec_log) = 2
    /\ exec_log[2].run.time = 2 * exec_log[1].run.time
    /\ returned[Len(returned)].passed

\* the strategies the loop has passed that are not named in skip_validators
RanSoFar ==
    SelectSeq(SubSeq(ValidatorNames, 1, idx - 1), LAMBDA name : name \notin skip_validators)

\* C18: the matrix has exactly one entry per strategy that was not skipped,
\* in the order LLMValidator, SemanticValidator, PerformanceAnalyzer; a
\* strategy named in skip_validators is never invoked and contributes no
\* entry and no vote.
C18_OneEntryPerStrategyRun ==
    /\ [i \in DOMAIN matrix |-> matrix[i].validator] = RanSoFar
    /\ [i \in DOMAIN returned |-> returned[i].name] = RanSoFar
    /\ "LLMValidator" \in skip_validators => llm_outcome = NoOutcome
    /\ "PerformanceAnalyzer" \in skip_validators => exec_log = <<>>
    /\ pc = "done"
         => /\ idx = Len(ValidatorNames) + 1
            /\ report.matrix = matrix
            /\ [i \in DOMAIN report.results |-> report.results[i].name] = RanSoFar

\* a finished run that skipped the SemanticValidator and holds the other
\* two entries in order
C18_SkippedStrategyHasNoEntry ==
    /\ pc = "done"
    /\ skip_validators = {"SemanticValidator"}
    /\ [i \in DOMAIN matrix |-> matrix[i].validator]
         = <<"LLMValidator", "PerformanceAnalyzer">>

\* C19: in the execution branch each script is started at most once and the
\* original before the converted file; a timeout of either run gives a
\* failing verdict with no retry, and when the original exits non-zero or
\* times out the converted file is never executed.
C19_RunsOnceInOrder ==
    /\ Len(exec_log) <= 2
    /\ \A i \in DOMAIN exec_log : exec_log[i].script = <<"original", "converted">>[i]
    /\ \A i \in DOMAIN exec_log :
         exec_log[i].run.kind = "timeout"
           => /\ i = Len(exec_log)
              /\ ExecutionReturned
              /\ ~returned[Len(returned)].passed
    /\ (exec_log # <<>> /\ ~ExitedZero(exec_log[1]) /\ exec_log[1].run.kind # "error")
         => Len(exec_log) = 1

\* an original that timed out: one execution, a failing verdict
C19_TimeoutEndsTheCall ==
    /\ ExecutionReturned
    /\ Len(exec_log) = 1
    /\ exec_log[1].run.kind = "timeout"
    /\ returned[Len(returned)].details = "Execution timed out."
    /\ ~returned[Len(returned)].passed

\* whether computing the i-th returned verdict raised an error inside its
\* strategy: a file that cannot be read, Python source that does not parse,
\* or subprocess.run raising
RaisedInside(i) ==
    \/ /\ returned[i].name = "SemanticValidator"
       /\ \/ ~original_file.readable \/ ~converted_file.readable
          \/ /\ TakesExecutionBranch(original_file, converted_file)
             /\ ~PyParses(original_file.content) \/ ~PyParses(converted_file.content)
    \/ /\ returned[i].name = "PerformanceAnalyzer"
       /\ IF TakesExecutionBranch(original_file, converted_file)
            THEN \E k \in DOMAIN exec_log : exec_log[k].run.kind = "error"
            ELSE ~original_file.readable \/ ~converted_file.readable

\* C20: any error raised while the structural or the complexity/performance
\* strategy computes its verdict results in a passing verdict, in every
\* branch of both strategies, the same-language Python branches included.
C20_ErrorsFailOpen ==
    \A i \in DOMAIN returned : RaisedInside(i) => returned[i].passed

\* a py/py pair with an unreadable file whose AST comparison failed
C20_AstErrorFails ==
    \E i \in DOMAIN returned :
      /\ returned[i].name = "SemanticValidator"
      /\ TakesExecutionBranch(original_file, converted_file)
      /\ ~original_file.readable
      /\ ~returned[i].passed
      /\ StartsWith(returned[i].details, "Error during AST comparison")

-----------------------------------------------------------------------------
(* The analysis layer: segment_code and extract_context.                    *)
(*                                                                          *)
(* Source files are sequences of the items below.  An item carries its text,*)
(* the nodes tree-sitter's grammar of its language yields for it (spans in  *)
(* characters from the item's start, children in source order, `field` the  *)
(* field name of the node in its parent) and, for Python, the nodes of      *)
(* ast.parse (line numbers from the item's first line) and whether          *)
(* ast.parse accepts it.                                                    *)

\* longest source file of the analysis layer, in items
MaxItems == 2

Max(S) == CHOOSE m \in S : \A n \in S : m >= n

\* The items hold one character that UTF-8 encodes in two bytes, the e with
\* an acute accent of "caf\u00e9".  TLC keeps only ASCII characters intact in
\* the states it stores, so the items write it as "~".
Wide == "~"

\* len(s.encode("utf-8"))
Utf8Len(s) == Len(s) + Cardinality(Occurrences(s, Wide))

\* s[a:b] for 0 <= a
Slice(s, a, b) ==
    LET end == Min({b, Len(s)})
    IN  IF a >= end THEN "" ELSE SubSeq(s, a + 1, end)

\* s.strip()
Strip(s) ==
    LET keep == {i \in 1..Len(s) : SubSeq(s, i, i) \notin Whitespace}
    IN  IF keep = {} THEN "" ELSE SubSeq(s, Min(keep), Max(keep))

\* s.splitlines(), "\n" being the only line boundary in the items
Splitlines(s) ==
    IF s = "" THEN <<>>
    ELSE LET parts == SplitLines(s)
         IN  IF parts[Len(parts)] = "" THEN SubSeq(parts, 1, Len(parts) - 1) ELSE parts

\* "\n".join(texts)
RECURSIVE JoinLines(_)
JoinLines(texts) ==
    IF texts = <<>> THEN ""
    ELSE IF Len(texts) = 1 THEN texts[1]
    ELSE texts[1] \o "\n" \o JoinLines(Tail(texts))

\* Python source
PythonItems == {
    [text |-> "import os\n",
     nodes |-> <<
             [type |-> "import_statement", field |-> "", from |-> 0, to |-> 9,
              children |-> <<
                 [type |-> "dotted_name", field |-> "name", from |-> 7, to |-> 9,
                  children |-> <<>>]>>]>>,
     ast |-> <<[type |-> "Import", name |-> "", lineno |-> 1, end_lineno |-> 1, children |-> <<>>]>>,
     valid |-> TRUE],
    [text |-> "def foo(x):\n    return x\n",
     nodes |-> <<
             [type |-> "function_definition", field |-> "", from |-> 0, to |-> 24,
              children |-> <<
                 [type |-> "identifier", field |-> "name", from |-> 4, to |-> 7,
                  children |-> <<>>],
                 [type |-> "parameters", field |-> "parameters", from |-> 7, to |-> 10,
                  children |-> <<>>],
                 [type |-> "block", field |-> "body", from |-> 16, to |-> 24,
                  children |-> <<
                     [type |-> "return_statement", field |-> "", from |-> 16, to |-> 24,
                      children |-> <<>>]>>]>>]>>,
     ast |-> <<[type |-> "FunctionDef", name |-> "foo", lineno |-> 1, end_lineno |-> 2, children |-> <<>>]>>,
     valid |-> TRUE],
    [text |-> "class Bar:\n    def method(self):\n        pass\n",
     nodes |-> <<
             [type |-> "class_definition", field |-> "", from |-> 0, to |-> 45,
              children |-> <<
                 [type |-> "identifier", field |-> "name", from |-> 6, to |-> 9,
                  children |-> <<>>],
                 [type |-> "block", field |-> "body", from |-> 15, to |-> 45,
                  children |-> <<
                     [type |-> "function_definition", field |-> "", from |-> 15, to |-> 45,
                      children |-> <<
                         [type |-> "identifier", field |-> "name", from |-> 19, to |-> 25,
                          children |-> <<>>],
                         [type |-> "parameters", field |-> "parameters", from |-> 25, to |-> 31,
                          children |-> <<>>],
                         [type |-> "block", field |-> "body", from |-> 41, to |-> 45,
                          children |-> <<
                             [type |-> "pass_statement", field |-> "", from |-> 41, to |-> 45,
                              children |-> <<>>]>>]>>]>>]>>]>>,
     ast |-> <<[type |-> "ClassDef", name |-> "Bar", lineno |-> 1, end_lineno |-> 3, children |-> <<[type |-> "FunctionDef", name |-> "method", lineno |-> 2, end_lineno |-> 3, children |-> <<>>]>>]>>,
     valid |-> TRUE],
    [text |-> "x = 1\n",
     nodes |-> <<
             [type |-> "expression_statement", field |-> "", from |-> 0, to |-> 5,
              children |-> <<
                 [type |-> "assignment", field |-> "", from |-> 0, to |-> 5,
                  children |-> <<>>]>>]>>,
     ast |-> <<[type |-> "Assign", name |-> "", lineno |-> 1, end_lineno |-> 1, children |-> <<>>]>>,
     valid |-> TRUE],
    [text |-> "# caf~\n",
     nodes |-> <<
             [type |-> "comment", field |-> "", from |-> 0, to |-> 6,
              children |-> <<>>]>>,
     ast |-> <<>>,
     valid |-> TRUE],
    [text |-> "x = = 1\n",
     nodes |-> <<
             [type |-> "ERROR", field |-> "", from |-> 0, to |-> 7,
              children |-> <<>>]>>,
     ast |-> <<>>,
     valid |-> FALSE]}

\* JavaScript source
JavascriptItems == {
    [text |-> "import x from 'y';\n",
     nodes |-> <<
             [type |-> "import_statement", field |-> "", from |-> 0, to |-> 18,
              children |-> <<>>]>>,
     ast |-> <<>>,
     valid |-> TRUE],
    [text |-> "function foo(x) { return x; }",
     nodes |-> <<
             [type |-> "function_declaration", field |-> "", from |-> 0, to |-> 29,
              children |-> <<
                 [type |-> "identifier", field |-> "name", from |-> 9, to |-> 12,
                  children |-> <<>>],
                 [type |-> "formal_parameters", field |-> "parameters", from |-> 12, to |-> 15,
                  children |-> <<>>],
                 [type |-> "statement_block", field |-> "body", from |-> 16, to |-> 29,
                  children |-> <<>>]>>]>>,
     ast |-> <<>>,
     valid |-> TRUE],
    [text |-> "class Bar { method() { } }\n",
     nodes |-> <<
             [type |-> "class_declaration", field |-> "", from |-> 0, to |-> 26,
              children |-> <<
                 [type |-> "identifier", field |-> "name", from |-> 6, to |-> 9,
                  children |-> <<>>],
                 [type |-> "class_body", field |-> "body", from |-> 10, to |-> 26,
                  children |-> <<
                     [type |-> "method_definition", field |-> "", from |-> 12, to |-> 24,
                      children |-> <<
                         [type |-> "property_identifier", field |-> "name", from |-> 12, to |-> 18,
                          children |-> <<>>],
                         [type |-> "formal_parameters", field |-> "parameters", from |-> 18, to |-> 20,
                          children |-> <<>>],
                         [type |-> "statement_block", field |-> "body", from |-> 21, to |-> 24,
                          children |-> <<>>]>>]>>]>>]>>,
     ast |-> <<>>,
     valid |-> TRUE],
    [text |-> "const f = (a) => a;\n",
     nodes |-> <<
             [type |-> "lexical_declaration", field |-> "", from |-> 0, to |-> 19,
              children |-> <<
                 [type |-> "variable_declarator", field |-> "", from |-> 6, to |-> 18,
                  children |-> <<
                     [type |-> "identifier", field |-> "name", from |-> 6, to |-> 7,
                      children |-> <<>>],
                     [type |-> "arrow_function", field |-> "value", from |-> 10, to |-> 18,
                      children |-> <<>>]>>]>>]>>,
     ast |-> <<>>,
     valid |-> TRUE],
    [text |-> "// caf~\n",
     nodes |-> <<
             [type |-> "comment", field |-> "", from |-> 0, to |-> 7,
              children |-> <<>>]>>,
     ast |-> <<>>,
     valid |-> TRUE]}

\* Java source
JavaItems == {
    [text |-> "import java.util.List;\n",
     nodes |-> <<
             [type |-> "import_declaration", field |-> "", from |-> 0, to |-> 22,
              children |-> <<>>]>>,
     ast |-> <<>>,
     valid |-> TRUE],
    [text |-> "class A { void m() { } }\n",
     nodes |-> <<
             [type |-> "class_declaration", field |-> "", from |-> 0, to |-> 24,
              children |-> <<
                 [type |-> "identifier", field |-> "name", from |-> 6, to |-> 7,
                  children |-> <<>>],
                 [type |-> "class_body", field |-> "body", from |-> 8, to |-> 24,
                  children |-> <<
                     [type |-> "method_declaration", field |-> "", from |-> 10, to |-> 22,
                      children |-> <<
                         [type |-> "void_type", field |-> "type", from |-> 10, to |-> 14,
                          children |-> <<>>],
                         [type |-> "identifier", field |-> "name", from |-> 15, to |-> 16,
                          children |-> <<>>],
                         [type |-> "formal_parameters", field |-> "parameters", from |-> 16, to |-> 18,
                          children |-> <<>>],
                         [type |-> "block", field |-> "body", from |-> 19, to |-> 22,
                          children |-> <<>>]>>]>>]>>]>>,
     ast |-> <<>>,
     valid |-> TRUE],
    [text |-> "// caf~\n",
     nodes |-> <<
             [type |-> "line_comment", field |-> "", from |-> 0, to |-> 7,
              children |-> <<>>]>>,
     ast |-> <<>>,
     valid |-> TRUE]}

\* C++ source
CppItems == {
    [text |-> "#include <a.h>\n",
     nodes |-> <<
             [type |-> "preproc_include", field |-> "", from |-> 0, to |-> 15,
              children |-> <<
                 [type |-> "system_lib_string", field |-> "path", from |-> 9, to |-> 14,
                  children |-> <<>>]>>]>>,
     ast |-> <<>>,
     valid |-> TRUE],
    [text |-> "int main() { return 0; }\n",
     nodes |-> <<
             [type |-> "function_definition", field |-> "", from |-> 0, to |-> 24,
              children |-> <<
                 [type |-> "primitive_type", field |-> "type", from |-> 0, to |-> 3,
                  children |-> <<>>],
                 [type |-> "function_declarator", field |-> "declarator", from |-> 4, to |-> 10,
                  children |-> <<
                     [type |-> "identifier", field |-> "declarator", from |-> 4, to |-> 8,
                      children |-> <<>>],
                     [type |-> "parameter_list", field |-> "parameters", from |-> 8, to |-> 10,
                      children |-> <<>>]>>],
                 [type |-> "compound_statement", field |-> "body", from |-> 11, to |-> 24,
                  children |-> <<>>]>>]>>,
     ast |-> <<>>,
     valid |-> TRUE],
    [text |-> "class C { };\n",
     nodes |-> <<
             [type |-> "declaration", field |-> "", from |-> 0, to |-> 12,
              children |-> <<
                 [type |-> "class_specifier", field |-> "type", from |-> 0, to |-> 11,
                  children |-> <<
                     [type |-> "type_identifier", field |-> "name", from |-> 6, to |-> 7,
                      children |-> <<>>],
                     [type |-> "field_declaration_list", field |-> "body", from |-> 8, to |-> 11,
                      children |-> <<>>]>>]>>]>>,
     ast |-> <<>>,
     valid |-> TRUE]}

\* text in no supported language
TextItems == {
    [text |-> "some random code\n",
     nodes |-> <<
>>,
     ast |-> <<>>,
     valid |-> TRUE],
    [text |-> "  indented\n",
     nodes |-> <<
>>,
     ast |-> <<>>,
     valid |-> TRUE],
    [text |-> "\n",
     nodes |-> <<
>>,
     ast |-> <<>>,
     valid |-> TRUE]}

\* the grammars tree_sitter_util.LANGUAGES names
GrammarItems ==
    [python |-> PythonItems, javascript |-> JavascriptItems, java |-> JavaItems,
     cpp |-> CppItems]

\* the type of the root node of each grammar
RootType ==
    [python |-> "module", javascript |-> "program", java |-> "program",
     cpp |-> "translation_unit"]

RECURSIVE ItemSeqsUpTo(_, _)
ItemSeqsUpTo(items, n) ==
    IF n = 0 THEN {<<>>}
    ELSE LET shorter == ItemSeqsUpTo(items, n - 1)
         IN  shorter \cup {Append(seq, item) : seq \in shorter, item \in items}

RECURSIVE ItemsText(_)
ItemsText(seq) == IF seq = <<>> THEN "" ELSE seq[1].text \o ItemsText(Tail(seq))

\* the number of line boundaries in the first k characters of code
Row(code, k) == Cardinality(Occurrences(SubSeq(code, 1, k), "\n"))

\* a node of the tree parser.parse(bytes(code, "utf-8")) returns: the offsets
\* tree-sitter reports count bytes of the encoded text
RECURSIVE Located(_, _, _)
Located(node, base, code) ==
    [type |-> node.type,
     field |-> node.field,
     start_char |-> base + node.from,
     end_char |-> base + node.to,
     start_byte |-> Utf8Len(SubSeq(code, 1, base + node.from)),
     end_byte |-> Utf8Len(SubSeq(code, 1, base + node.to)),
     start_line |-> Row(code, base + node.from),
     end_line |-> Row(code, base + node.to),
     children |-> [i \in DOMAIN node.children |-> Located(node.children[i], base, code)]]

\* the nodes of the items of seq from the k-th on, the k-th starting at base
RECURSIVE LocatedFrom(_, _, _, _)
LocatedFrom(seq, k, base, code) ==
    IF k > Len(seq) THEN <<>>
    ELSE [i \in DOMAIN seq[k].nodes |-> Located(seq[k].nodes[i], base, code)]
           \o LocatedFrom(seq, k + 1, base + Len(seq[k].text), code)

\* a node of ast.parse(code), its line numbers counted from the file's start
RECURSIVE AstLocated(_, _)
AstLocated(node, lines_before) ==
    [type |-> node.type,
     name |-> node.name,
     lineno |-> lines_before + node.lineno,
     end_lineno |-> lines_before + node.end_lineno,
     children |-> [i \in DOMAIN node.children |->
                      AstLocated(node.children[i], lines_before)]]

RECURSIVE AstFrom(_, _, _)
AstFrom(seq, k, lines_before) ==
    IF k > Len(seq) THEN <<>>
    ELSE [i \in DOMAIN seq[k].ast |-> AstLocated(seq[k].ast[i], lines_before)]
           \o AstFrom(seq, k + 1, lines_before + Row(seq[k].text, Len(seq[k].text)))

\* what the parsers make of the file holding the items of seq
ParseItems(seq, language) ==
    LET code == ItemsText(seq)
    IN  [code |-> code,
         root |-> [type |-> RootType[language], field |-> "",
                   start_char |-> 0, end_char |-> Len(code),
                   start_byte |-> 0, end_byte |-> Utf8Len(code),
                   start_line |-> 0, end_line |-> Row(code, Len(code)),
                   children |-> LocatedFrom(seq, 1, 0, code)],
         ast |-> [type |-> "Module", name |-> "", lineno |-> 0, end_lineno |-> 0,
                  children |-> AstFrom(seq, 1, 0)],
         valid |-> \A k \in DOMAIN seq : seq[k].valid]

\* every source file of a grammar's language, parsed
SyntaxTrees ==
    [language \in DOMAIN GrammarItems |->
        LET parsed == {ParseItems(seq, language) :
                         seq \in ItemSeqsUpTo(GrammarItems[language], MaxItems)}
        IN  [code \in {p.code : p \in parsed} |-> CHOOSE p \in parsed : p.code = code]]

\* tree_sitter_util.parse_code(code, language).root_node
ParseCode(code, language) == SyntaxTrees[language][code].root

\* whether ast.parse(code) returns, and what it returns
PyAstParses(code) == SyntaxTrees["python"][code].valid
PyAstParse(code) == SyntaxTrees["python"][code].ast

-----------------------------------------------------------------------------
(* segmentation_engine *)

\* the languages segment_code and extract_context hand to tree-sitter
GrammarLanguages == {"python", "javascript", "java", "cpp", "c++"}

\* ts_language = "cpp" if language == "c++" else language
TsLanguage(language) == IF language = "c++" THEN "cpp" ELSE language

\* target_types.get(language, []) of extract_segments_from_tree
TargetTypes(language) ==
    CASE language = "python" -> {"function_definition", "class_definition"}
      [] language = "javascript" -> {"function_declaration", "function_expression",
                                     "class_declaration", "method_definition"}
      [] language = "java" -> {"method_declaration", "class_declaration",
                               "constructor_declaration"}
      [] language \in {"cpp", "c++"} -> {"function_definition", "class_specifier"}
      [] OTHER -> {}

\* node.text.decode('utf-8')
NodeText(code, node) == SubSeq(code, node.start_char + 1, node.end_char)

ChildrenOfType(node, type) == SelectSeq(node.children, LAMBDA child : child.type = type)

\* the name extract_segments_from_tree gives the segment of a matched node
SegmentName(node, code, language) ==
    IF language \in {"python", "javascript", "java"}
      THEN LET named == SelectSeq(node.children, LAMBDA child : child.field = "name")
           IN  IF named # <<>> THEN NodeText(code, named[1]) ELSE "<anonymous>"
    ELSE IF node.type = "class_specifier"
      THEN LET found == ChildrenOfType(node, "type_identifier")
           IN  IF found # <<>> THEN NodeText(code, found[1]) ELSE "<anonymous>"
    ELSE IF node.type = "function_definition"
      THEN LET declarators == ChildrenOfType(node, "function_declarator")
               found == IF declarators = <<>> THEN <<>>
                        ELSE ChildrenOfType(declarators[1], "identifier")
           IN  IF found # <<>> THEN NodeText(code, found[1]) ELSE "<anonymous>"
    ELSE "<anonymous>"

\* the segment of a matched node, its end taken one byte further
SegmentOfInclusiveEnd(node, code, language) ==
    [node_type |-> node.type,
     name |-> SegmentName(node, code, language),
     code |-> Slice(code, node.start_byte, node.end_byte + 1),
     start_byte |-> node.start_byte,
     end_byte |-> node.end_byte + 1,
     start_line |-> node.start_line,
     end_line |-> node.end_line]

\* the dict extract_segments_from_tree appends for a matched node: the
\* snippet is code[start_byte:end_byte], the str sliced at the byte offsets
SegmentOf(node, code, language) ==
    [node_type |-> node.type,
     name |-> SegmentName(node, code, language),
     code |-> Slice(code, node.start_byte, node.end_byte),
     start_byte |-> node.start_byte,
     end_byte |-> node.end_byte,
     start_line |-> node.start_line,
     end_line |-> node.end_line]

RECURSIVE Flatten(_)
Flatten(seqs) == IF seqs = <<>> THEN <<>> ELSE seqs[1] \o Flatten(Tail(seqs))

\* walk_node that does not descend into a node it has matched
RECURSIVE WalkSegmentsOutermost(_, _, _)
WalkSegmentsOutermost(node, code, language) ==
    IF node.type \in TargetTypes(language)
      THEN <<SegmentOf(node, code, language)>>
      ELSE Flatten([i \in DOMAIN node.children |->
                      WalkSegmentsOutermost(node.children[i], code, language)])

\* walk_node of extract_segments_from_tree: the segments appended by the
\* walk of node
RECURSIVE WalkSegments(_, _, _)
WalkSegments(node, code, language) ==
    (IF node.type \in TargetTypes(language)
       THEN <<SegmentOf(node, code, language)>>
       ELSE <<>>)
      \o Flatten([i \in DOMAIN node.children |->
                    WalkSegments(node.children[i], code, language)])

\* extract_segments_from_tree(tree, code, language)
ExtractSegmentsFromTree(root, code, language) == WalkSegments(root, code, language)

\* ast.walk: breadth first from the queue
RECURSIVE AstWalk(_)
AstWalk(queue) ==
    IF queue = <<>> THEN <<>>
    ELSE <<queue[1]>> \o AstWalk(Tail(queue) \o queue[1].children)

\* code.splitlines()[a:b] joined by "\n"
JoinedLines(code, a, b) ==
    LET lines == Splitlines(code)
    IN  JoinLines(SubSeq(lines, a + 1, Min({b, Len(lines)})))

\* segment_python_ast
SegmentPythonAst(code) ==
    IF ~PyAstParses(code) THEN <<>>
    ELSE LET nodes == SelectSeq(AstWalk(<<PyAstParse(code)>>),
                                LAMBDA node : node.type \in {"FunctionDef", "ClassDef"})
         IN  [i \in DOMAIN nodes |->
                [node_type |-> nodes[i].type,
                 name |-> nodes[i].name,
                 code |-> Strip(JoinedLines(code, nodes[i].lineno - 1, nodes[i].end_lineno)),
                 start_line |-> nodes[i].lineno - 1,
                 end_line |-> nodes[i].end_lineno - 1]]

\* . of a regular expression: any character but the line boundary
AnyChars0 == Run({"\n"}, TRUE, 0)
AnyChars1 == Run({"\n"}, TRUE, 1)

\* r"function\s+(\w+)\s*\(|(\w+)\s*=\s*\(.*\)\s*=>|class\s+(\w+)"
JsSegmentRe ==
    <<<<Lit({"function"}), Ws1, Word1, Ws0, Lit({"("})>>,
      <<Word1, Ws0, Lit({"="}), Ws0, Lit({"("}), AnyChars0, Lit({")"}), Ws0, Lit({"=>"})>>,
      <<Lit({"class"}), Ws1, Word1>>>>

\* re.finditer of an alternation from position pos on: the leftmost match,
\* by the first alternative that matches there, then on from its end.  The
\* quantifiers of the patterns used are greedy and followed by nothing that
\* retakes what they gave up, so the match ends at the last possible end.
\* start and end count characters from 0.
RECURSIVE FindIter(_, _, _)
FindIter(t, alternatives, pos) ==
    LET starts == {i \in pos..Len(t) :
                     \E a \in DOMAIN alternatives : Ends(t, i, alternatives[a], 1) # {}}
    IN  IF starts = {} THEN <<>>
        ELSE LET i == Min(starts)
                 a == Min({b \in DOMAIN alternatives : Ends(t, i, alternatives[b], 1) # {}})
                 e == Max(Ends(t, i, alternatives[a], 1))
             IN  <<[start |-> i - 1, end |-> e - 1, alternative |-> a]>>
                   \o FindIter(t, alternatives, e)

\* the (\w+) group of a match of JsSegmentRe
JsSegmentName(t, match) ==
    LET from == IF match.alternative = 2 THEN match.start + 1
                ELSE Max(Ends(t, match.start + 1,
                              <<Lit({"function", "class"}), Ws1>>, 1))
        to == Max(RunEnds(t, from, WordChars, FALSE, 1))
    IN  SubSeq(t, from, to - 1)

\* code.find("}", start) + 1 if code.find("}", start) != -1 else len(code)
ClosingBraceEnd(code, start) ==
    LET found == {i \in Occurrences(code, "}") : i - 1 >= start}
    IN  IF found = {} THEN Len(code) ELSE Min(found)

\* segment_javascript_regex
SegmentJavascriptRegex(code) ==
    LET matches == FindIter(code, JsSegmentRe, 1)
    IN  [i \in DOMAIN matches |->
           LET start == matches[i].start
               end == ClosingBraceEnd(code, start)
           IN  [node_type |-> "FunctionOrClass",
                name |-> JsSegmentName(code, matches[i]),
                code |-> Strip(Slice(code, start, end)),
                start_byte |-> start,
                end_byte |-> end]]

\* what the fallback extractors return for every source file
FallbackSegments ==
    [language \in {"python", "javascript"} |->
        [code \in DOMAIN SyntaxTrees[language] |->
            IF language = "python" THEN SegmentPythonAst(code)
            ELSE SegmentJavascriptRegex(code)]]

\* the whole-file segment with the content trimmed
FileSegmentTrimmed(meta) ==
    [node_type |-> "File",
     name |-> meta.name,
     code |-> Strip(meta.content),
     start_byte |-> 0,
     end_byte |-> Len(Strip(meta.content))]

\* the whole-file segment
FileSegment(meta) ==
    [node_type |-> "File",
     name |-> meta.name,
     code |-> meta.content,
     start_byte |-> 0,
     end_byte |-> Len(meta.content)]

\* the first step of segment_code: the grammar path, empty when the
\* language has no grammar or parse_code raises
GrammarSegments(meta, available) ==
    LET language == Lower(meta.language)
    IN  IF language \in GrammarLanguages /\ available
          THEN ExtractSegmentsFromTree(ParseCode(meta.content, TsLanguage(language)),
                                       meta.content, language)
          ELSE <<>>

\* segment_code running the fallback after a grammar path that succeeded
SegmentCodeFallbackToo(meta, available) ==
    LET language == Lower(meta.language)
        from_tree == GrammarSegments(meta, available)
    IN  from_tree \o (IF language \in {"python", "javascript"}
                        THEN FallbackSegments[language][meta.content]
                        ELSE <<FileSegment(meta)>>)

\* segment_code(file_metadata)
SegmentCode(meta, available) ==
    LET language == Lower(meta.language)
        from_tree == GrammarSegments(meta, available)
    IN  IF from_tree # <<>> THEN from_tree
        ELSE IF language \in {"python", "javascript"}
          THEN FallbackSegments[language][meta.content]
        ELSE <<FileSegment(meta)>>

-----------------------------------------------------------------------------
(* context_extractor.  Every extractor is modelled by the pieces it         *)
(* collects: the text of each piece and the characters [from, to) of the    *)
(* file the text was cut from.                                              *)

\* context_types.get(language, []) of extract_context_from_tree
ContextTypes(language) ==
    CASE language = "python" -> {"import_statement", "import_from_statement",
                                 "function_definition", "class_definition"}
      [] language = "javascript" -> {"import_statement", "function_declaration",
                                     "class_declaration"}
      [] language = "java" -> {"import_declaration", "class_declaration",
                               "method_declaration"}
      [] language = "cpp" -> {"preproc_include", "class_specifier", "function_definition"}
      [] OTHER -> {}

\* the piece code[a:b]
Piece(code, a, b) ==
    [text |-> Slice(code, a, b), from |-> Min({a, Len(code)}), to |-> Min({b, Len(code)})]

\* walk_node of extract_context_from_tree: the snippets appended by the walk
\* of node
RECURSIVE WalkContext(_, _, _, _)
WalkContext(node, code, q, language) ==
    (IF node.type \in ContextTypes(language) /\ node.end_byte < q
       THEN <<Piece(code, node.start_byte, node.end_byte)>>
       ELSE <<>>)
      \o Flatten([i \in DOMAIN node.children |->
                    WalkContext(node.children[i], code, q, language)])

\* the character offset at which line k (from 0) of code starts, and the one
\* at which it ends, its line boundary left out
LineStart(code, k) ==
    LET breaks == Occurrences(code, "\n")
    IN  IF k = 0 THEN 0
        ELSE IF k > Cardinality(breaks) THEN Len(code)
        ELSE CHOOSE p \in breaks : Cardinality({o \in breaks : o <= p}) = k

LineEnd(code, k) ==
    LET breaks == Occurrences(code, "\n")
    IN  IF k + 1 > Cardinality(breaks) THEN Len(code)
        ELSE (CHOOSE p \in breaks : Cardinality({o \in breaks : o <= p}) = k + 1) - 1

\* the piece code.splitlines()[a:b], its lines joined by "\n"
LinesPiece(code, a, b) ==
    LET last == Min({b, Len(Splitlines(code))})
    IN  IF a >= last THEN [text |-> "", from |-> 0, to |-> 0]
        ELSE [text |-> JoinedLines(code, a, b),
              from |-> LineStart(code, a),
              to |-> LineEnd(code, last - 1)]

\* extract_python_context_ast
PythonContextAst(code, q) ==
    IF ~PyAstParses(code) THEN <<>>
    ELSE LET nodes == SelectSeq(AstWalk(<<PyAstParse(code)>>),
                        LAMBDA node :
                          /\ node.type \in {"Import", "ImportFrom", "FunctionDef",
                                            "ClassDef", "Assign"}
                          /\ node.end_lineno < q)
         IN  [i \in DOMAIN nodes |->
                LinesPiece(code, nodes[i].lineno - 1, nodes[i].end_lineno)]

\* re.compile(r"^import .+", re.MULTILINE)
JsImportRe == <<<<[k |-> "bol", alts |-> {}, set |-> {}, neg |-> FALSE, min |-> 0],
                  Lit({"import "}), AnyChars1>>>>

\* re.compile(r"function\s+\w+|class\s+\w+", re.MULTILINE)
JsDeclarationRe ==
    <<<<Lit({"function"}), Ws1, Word1>>, <<Lit({"class"}), Ws1, Word1>>>>

\* the matches of the two patterns in every JavaScript source file
JsContextMatches ==
    [code \in DOMAIN SyntaxTrees["javascript"] |->
        FindIter(code, JsImportRe, 1) \o FindIter(code, JsDeclarationRe, 1)]

\* extract_javascript_context_regex
JavascriptContextRegex(code, q) ==
    LET matches == SelectSeq(JsContextMatches[code], LAMBDA match : match.start < q)
    IN  [i \in DOMAIN matches |-> Piece(code, matches[i].start, matches[i].end)]

\* the universal fallback with the last line taken at index segment_start
LinePrefixInclusive(code, q) == <<LinesPiece(code, 0, q + 1)>>

\* the universal fallback: code_lines[:segment_start]
LinePrefix(code, q) == <<LinesPiece(code, 0, q)>>

Texts(pieces) == [i \in DOMAIN pieces |-> pieces[i].text]

\* "\n".join(snippets).strip()
ContextCode(pieces) == Strip(JoinLines(Texts(pieces)))

\* the pieces of extract_context_from_tree, none when the language has no
\* grammar or parse_code raises
GrammarContext(meta, q, available) ==
    LET language == Lower(meta.language)
    IN  IF language \in GrammarLanguages /\ available
          THEN WalkContext(ParseCode(meta.content, TsLanguage(language)),
                           meta.content, q, language)
          ELSE <<>>

\* the extractor whose result extract_context returns, and its pieces
ContextPieces(meta, q, available) ==
    LET language == Lower(meta.language)
        from_tree == GrammarContext(meta, q, available)
    IN  IF ContextCode(from_tree) # ""
          THEN [path |-> "grammar", pieces |-> from_tree]
        ELSE IF language = "python"
          THEN [path |-> "python ast", pieces |-> PythonContextAst(meta.content, q)]
        ELSE IF language = "javascript"
          THEN [path |-> "javascript regex",
                pieces |-> JavascriptContextRegex(meta.content, q)]
        ELSE [path |-> "line prefix", pieces |-> LinePrefix(meta.content, q)]

\* extract_context(file_metadata, segment_start)
ExtractContext(meta, q, available) ==
    LET context_code == ContextCode(ContextPieces(meta, q, available).pieces)
    IN  [context_code |-> context_code,
         source_lines |-> <<0, Len(Splitlines(context_code))>>]

-----------------------------------------------------------------------------
(* One call of segment_code or of extract_context on a source file *)

\* the files analysed: a name, the language the classifier gave, the items
AnalysedKinds ==
    {[name |-> "main.py", language |-> "Python", items |-> PythonItems],
     [name |-> "main.js", language |-> "JavaScript", items |-> JavascriptItems],
     [name |-> "Main.java", language |-> "Java", items |-> JavaItems],
     [name |-> "main.cpp", language |-> "cpp", items |-> CppItems],
     [name |-> "main.cc", language |-> "C++", items |-> CppItems],
     [name |-> "unknown.txt", language |-> "Unknown", items |-> TextItems]}

AnalysedFiles ==
    UNION {{[name |-> kind.name, language |-> kind.language, content |-> ItemsText(seq)] :
              seq \in ItemSeqsUpTo(kind.items, MaxItems)} : kind \in AnalysedKinds}

InitAnalysis ==
    /\ original_file = File("", TRUE, "")
    /\ converted_file = File("", TRUE, "")
    /\ IdleValidation
    /\ file_metadata \in AnalysedFiles
    /\ segment_start \in 0..Utf8Len(file_metadata.content)
    /\ grammar_available \in BOOLEAN
    /\ segments = <<>>
    /\ context = [context_code |-> "", source_lines |-> <<0, 0>>]
    /\ NoCompletion

\* segment_code(file_metadata)
CallSegmentCode ==
    /\ UNCHANGED client
    /\ pc = "ready"
    /\ segments' = SegmentCode(file_metadata, grammar_available)
    /\ pc' = "segmented"
    /\ UNCHANGED <<original_file, converted_file, strict_arg, cfg_strict, strict_mode,
                   skip_validators, idx, llm_outcome, exec_log, returned, results,
                   matrix, report, file_metadata, segment_start, grammar_available,
                   context>>

\* extract_context(file_metadata, segment_start)
CallExtractContext ==
    /\ UNCHANGED client
    /\ pc = "ready"
    /\ context' = ExtractContext(file_metadata, segment_start, grammar_available)
    /\ pc' = "context"
    /\ UNCHANGED <<original_file, converted_file, strict_arg, cfg_strict, strict_mode,
                   skip_validators, idx, llm_outcome, exec_log, returned, results,
                   matrix, report, file_metadata, segment_start, grammar_available,
                   segments>>

NextAnalysis == CallSegmentCode \/ CallExtractContext

SpecAnalysis == InitAnalysis /\ [][NextAnalysis]_vars

-----------------------------------------------------------------------------
(* Claims about segment_code *)

\* every node of the syntax tree under node, in pre-order
RECURSIVE PreOrder(_)
PreOrder(node) ==
    <<node>> \o Flatten([i \in DOMAIN node.children |-> PreOrder(node.children[i])])

\* the nodes of the file's syntax tree whose type is in the allow-list of
\* the file's language, in pre-order
MatchedNodes(meta) ==
    LET language == Lower(meta.language)
    IN  IF language \in GrammarLanguages
          THEN SelectSeq(PreOrder(ParseCode(meta.content, TsLanguage(language))),
                         LAMBDA node : node.type \in TargetTypes(language))
          ELSE <<>>

\* segment_code has returned what the tree walk collected
OnGrammarPath ==
    /\ pc = "segmented"
    /\ grammar_available
    /\ MatchedNodes(file_metadata) # <<>>

\* segment i lies inside segment j
Inside(i, j) ==
    /\ segments[j].start_byte <= segments[i].start_byte
    /\ segments[i].end_byte <= segments[j].end_byte

\* the spans of segments i and j share no byte
Disjoint(i, j) ==
    \/ segments[i].end_byte <= segments[j].start_byte
    \/ segments[j].end_byte <= segments[i].start_byte

\* C12: on the grammar path segment_code returns one segment for every
\* node whose type is in the allow-list of the language, nested ones
\* included, and no other segment, in pre-order of the tree; the start
\* offsets never decrease along the sequence.
C12_OneSegmentPerMatchedNode ==
    OnGrammarPath =>
        LET matched == MatchedNodes(file_metadata)
        IN  /\ Len(segments) = Len(matched)
            /\ \A i \in DOMAIN segments :
                 /\ segments[i].node_type = matched[i].type
                 /\ segments[i].start_byte = matched[i].start_byte
                 /\ segments[i].end_byte = matched[i].end_byte
            /\ \A i, j \in DOMAIN segments :
                 i < j => segments[i].start_byte <= segments[j].start_byte

\* a class and the method inside it are both segments
C12_MethodInsideClassIsSegment ==
    /\ OnGrammarPath
    /\ \E i, j \in DOMAIN segments :
         /\ i < j
         /\ segments[i].node_type \in {"class_definition", "class_declaration"}
         /\ segments[j].node_type \in {"function_definition", "method_definition",
                                       "method_declaration"}
         /\ Inside(j, i)

\* C13 as stated: on the grammar path the byte spans of the returned
\* segments are pairwise non-overlapping.
C13_SpansPairwiseDisjoint ==
    OnGrammarPath =>
        \A i, j \in DOMAIN segments : i # j => Disjoint(i, j)

\* C13 amended: on the grammar path any two of the returned byte spans are
\* either non-overlapping or one of them lies inside the other.
C13_SpansDisjointOrNested ==
    OnGrammarPath =>
        \A i, j \in DOMAIN segments :
            i # j => Disjoint(i, j) \/ Inside(i, j) \/ Inside(j, i)

\* two segments that abut and a segment nested in another one
C13_AbuttingAndNestedSpans ==
    /\ OnGrammarPath
    /\ \E i, j \in DOMAIN segments :
         /\ i # j
         /\ segments[i].end_byte = segments[j].start_byte
    /\ \E i, j \in DOMAIN segments : i # j /\ Inside(j, i)

\* segment_code found no dedicated extractor for the file
NoDedicatedExtractor ==
    /\ pc = "segmented"
    /\ Lower(file_metadata.language) \notin {"python", "javascript"}
    /\ ~grammar_available \/ MatchedNodes(file_metadata) = <<>>

-----------------------------------------------------------------------------
(* Claims about extract_context *)

\* the byte offset of the character offset chars of code
ByteOffset(code, chars) == Utf8Len(SubSeq(code, 1, chars))

\* the number of white-space characters text ends with
TrailingBlank(text) == Len("x" \o text) - Len(Strip("x" \o text))

\* the byte offset at which the text of piece i that the context keeps ends:
\* the trim drops the white space the last piece ends with
KeptEnd(code, pieces, i) ==
    ByteOffset(code,
               IF \A j \in DOMAIN pieces : j > i => pieces[j].text = ""
                 THEN pieces[i].to - TrailingBlank(pieces[i].text)
                 ELSE pieces[i].to)

\* C15: the context_code returned by extract_context holds no text of the
\* file located at or after the query offset, on whichever path it was
\* collected.
C15_NothingAtOrAfterOffset ==
    pc = "context" =>
        LET pieces == ContextPieces(file_metadata, segment_start, grammar_available).pieces
        IN  /\ context.context_code = ContextCode(pieces)
            /\ \A i \in DOMAIN pieces :
                 Strip(pieces[i].text) # "" =>
                     KeptEnd(file_metadata.content, pieces, i) <= segment_start

\* the python AST fallback has returned a line that starts after the offset
C15_LineAfterOffsetReturned ==
    /\ pc = "context"
    /\ LET found == ContextPieces(file_metadata, segment_start, grammar_available)
       IN  /\ found.path = "python ast"
           /\ \E i \in DOMAIN found.pieces :
                /\ Strip(found.pieces[i].text) # ""
                /\ ByteOffset(file_metadata.content, found.pieces[i].from) > segment_start
    /\ context.context_code # ""

\* the nodes whose text the grammar path is to collect: those of a type in
\* the context allow-list that end strictly before the offset, in pre-order
ContextNodes(meta, q) ==
    LET language == Lower(meta.language)
    IN  IF language \in GrammarLanguages
          THEN SelectSeq(PreOrder(ParseCode(meta.content, TsLanguage(language))),
                         LAMBDA node : /\ node.type \in ContextTypes(language)
                                       /\ node.end_byte < q)
          ELSE <<>>

\* the text of those nodes, joined by newlines and trimmed
ContextNodesText(meta, q) ==
    LET nodes == ContextNodes(meta, q)
    IN  Strip(JoinLines([i \in DOMAIN nodes |-> NodeText(meta.content, nodes[i])]))

\* C16: on the grammar path extract_context returns the text of every node
\* whose type is in the context allow-list of the language and whose end
\* offset is strictly less than the query offset, and of no other node,
\* joined with newlines in traversal order and trimmed.
C16_ContextIsTextOfEarlierNodes ==
    ( /\ pc = "context"
      /\ grammar_available
      /\ ContextNodesText(file_metadata, segment_start) # "" )
        => context.context_code = ContextNodesText(file_metadata, segment_start)

\* the grammar path has returned a text that is not the text of the nodes
C16_ShiftedSnippetReturned ==
    /\ pc = "context"
    /\ grammar_available
    /\ ContextPieces(file_metadata, segment_start, grammar_available).path = "grammar"
    /\ ContextNodesText(file_metadata, segment_start) # ""
    /\ context.context_code # ContextNodesText(file_metadata, segment_start)

\* extract_context has no grammar and no dedicated extractor for the file
NoContextExtractor ==
    /\ pc = "context"
    /\ Lower(file_metadata.language) \notin {"python", "javascript"}
    /\ Lower(file_metadata.language) \notin GrammarLanguages \/ ~grammar_available

\* C17: without a grammar and without a dedicated extractor the context is
\* the lines of the file with index strictly below q, joined by newlines and
\* trimmed; with q = 0 it is the empty string.
C17_LinesBelowIndex ==
    NoContextExtractor =>
        LET lines == Splitlines(file_metadata.content)
            below == {i \in DOMAIN lines : i - 1 < segment_start}
        IN  /\ context.context_code =
                 Strip(JoinLines([i \in 1..Cardinality(below) |-> lines[i]]))
            /\ segment_start = 0 => context.context_code = ""

\* the first of two lines returned for q = 1
C17_FirstLineOnly ==
    /\ NoContextExtractor
    /\ segment_start = 1
    /\ Len(Splitlines(file_metadata.content)) = 2
    /\ context.context_code = Strip(Splitlines(file_metadata.content)[1])
    /\ context.context_code # ""

-----------------------------------------------------------------------------
(* Further claims about run_all *)

\* the detail of verdict i, as its strategy returned it, holds a signature
SignatureIn(i) ==
    \E keyword \in RescueKeywords : Contains(Lower(returned[i].details), keyword)

\* C25: in strict mode, in a same-language session, for a verdict that
\* passed and for a failing verdict whose detail holds none of the four
\* signatures, the matrix entry's passed flag and details are what the
\* strategy returned.
C25_VerdictKeptOutsideRescue ==
    \A i \in DOMAIN matrix :
        (strict_mode \/ ~IsCrossLanguage \/ returned[i].passed \/ ~SignatureIn(i))
            => /\ matrix[i].passed = returned[i].passed
               /\ matrix[i].details = returned[i].details

\* a failing cross-language verdict that carries a signature stays failing
\* in strict mode
C25_StrictModeKeepsSignedFailure ==
    /\ pc = "done"
    /\ strict_mode
    /\ IsCrossLanguage
    /\ \E i \in DOMAIN matrix :
         /\ ~returned[i].passed
         /\ SignatureIn(i)
         /\ ~matrix[i].passed
         /\ matrix[i].details = returned[i].details

LenientCrossLanguage == report.returned /\ report.is_cross_language /\ ~report.strict_mode

\* C26: in lenient cross-language mode the quorum is two passing verdicts
\* however many strategies ran: with fewer than two the run never passes,
\* with exactly two both must pass.
C26_AbsoluteQuorum ==
    LenientCrossLanguage =>
        /\ Len(report.results) < 2 => ~report.overall_passed
        /\ Len(report.results) = 2 =>
             (report.overall_passed <=> \A i \in 1..2 : report.results[i].passed)

\* the only strategy that ran passed and the run failed
C26_SinglePassingVerdictFails ==
    /\ LenientCrossLanguage
    /\ Len(report.results) = 1
    /\ report.results[1].passed
    /\ ~report.overall_passed

\* C27: the strict_mode run_all reports is the configured
\* validation.strict_mode when the configuration sets it and the
\* constructor argument otherwise, and it is the mode the rescue path and
\* the aggregate policy of the run used.
C27_ReportedModeIsModeUsed ==
    report.returned =>
        /\ report.strict_mode = IF cfg_strict # <<>> THEN cfg_strict[1] ELSE strict_arg
        /\ \A i \in DOMAIN report.results :
             report.results[i].passed # returned[i].passed
                 => report.is_cross_language /\ ~report.strict_mode
        /\ report.overall_passed =
             IF report.is_cross_language /\ ~report.strict_mode
               THEN PassedCount(report.results) >= 2
               ELSE PassedCount(report.results) = Len(report.results)

\* the configuration overrides a strict constructor argument and a verdict
\* is rescued
C27_ConfigurationOverridesArgument ==
    /\ report.returned
    /\ strict_arg
    /\ cfg_strict = <<FALSE>>
    /\ ~report.strict_mode
    /\ \E i \in DOMAIN report.results : report.results[i].passed /\ ~returned[i].passed

-----------------------------------------------------------------------------
(* Further claims about segment_code and extract_context *)

\* C21: segment_code takes the first strategy that succeeds: a non-empty
\* result of the grammar path is returned and no fallback adds to it; when
\* the parser raises or the grammar path finds nothing the call still
\* returns, with exactly the result of the language's fallback.
C21_FirstSuccessWins ==
    pc = "segmented" =>
        LET language == Lower(file_metadata.language)
            code == file_metadata.content
        IN  IF grammar_available /\ MatchedNodes(file_metadata) # <<>>
              THEN /\ segments # <<>>
                   /\ \A i \in DOMAIN segments :
                        segments[i].node_type \in TargetTypes(language)
              ELSE segments =
                     IF language \in {"python", "javascript"}
                       THEN FallbackSegments[language][code]
                     ELSE <<[node_type |-> "File", name |-> file_metadata.name,
                             code |-> code, start_byte |-> 0, end_byte |-> Len(code)]>>

\* without the grammar a python class comes from the AST extractor
C21_ParserRaisedAstExtractorUsed ==
    /\ pc = "segmented"
    /\ ~grammar_available
    /\ Lower(file_metadata.language) = "python"
    /\ \E i \in DOMAIN segments : segments[i].node_type = "ClassDef"

\* segment_code returned what a legacy extractor found
OnLegacyPath ==
    /\ pc = "segmented"
    /\ Lower(file_metadata.language) \in {"python", "javascript"}
    /\ ~(grammar_available /\ MatchedNodes(file_metadata) # <<>>)

HasByteSpan(segment) == {"start_byte", "end_byte"} \subseteq DOMAIN segment
HasLineSpan(segment) == {"start_line", "end_line"} \subseteq DOMAIN segment

\* where a legacy segment starts and where it ends (the end line is part
\* of a line span, the end byte is not part of a byte span)
SpanStart(segment) ==
    IF HasByteSpan(segment) THEN segment.start_byte ELSE segment.start_line
SpanEnd(segment) ==
    IF HasByteSpan(segment) THEN segment.end_byte ELSE segment.end_line + 1

\* C22: the segments of the legacy extractors are pairwise non-overlapping,
\* ordered by start position, and each has a complete byte span or a
\* complete line span.
C22_LegacySegmentsDisjointAndOrdered ==
    OnLegacyPath =>
        /\ \A i \in DOMAIN segments : HasByteSpan(segments[i]) \/ HasLineSpan(segments[i])
        /\ \A i, j \in DOMAIN segments :
             i < j => /\ SpanStart(segments[i]) <= SpanStart(segments[j])
                      /\ SpanEnd(segments[i]) <= SpanStart(segments[j])

\* the AST extractor returned a method after a function that follows the
\* method's class
C22_MethodAfterLaterFunction ==
    /\ OnLegacyPath
    /\ \E i, j \in DOMAIN segments :
         /\ i < j
         /\ HasLineSpan(segments[i])
         /\ segments[j].start_line < segments[i].start_line

\* C23: the code of every segment of the grammar path is the source text of
\* its node, also when the content holds multi-byte characters.
C23_CodeIsNodeText ==
    OnGrammarPath =>
        LET matched == MatchedNodes(file_metadata)
        IN  /\ Len(segments) = Len(matched)
            /\ \A i \in DOMAIN segments :
                 segments[i].code = NodeText(file_metadata.content, matched[i])

\* a segment after a two-byte character whose code is not its node's text
C23_ShiftedCodeReturned ==
    /\ OnGrammarPath
    /\ Utf8Len(file_metadata.content) > Len(file_metadata.content)
    /\ \E i \in DOMAIN segments :
         segments[i].code # NodeText(file_metadata.content, MatchedNodes(file_metadata)[i])

\* C24: the context is made of the declarations before the offset, each
\* once and in source order: no collected text lies inside another
\* collected text or before an earlier one.
C24_EachDeclarationOnceInOrder ==
    pc = "context" =>
        LET pieces == ContextPieces(file_metadata, segment_start, grammar_available).pieces
        IN  /\ context.context_code = ContextCode(pieces)
            /\ \A i, j \in DOMAIN pieces :
                 (i < j /\ pieces[i].text # "" /\ pieces[j].text # "")
                     => pieces[i].to <= pieces[j].from

\* the text of a method is in the context twice, in its class and alone
C24_MethodTextTwice ==
    /\ pc = "context"
    /\ LET found == ContextPieces(file_metadata, segment_start, grammar_available)
       IN  /\ found.path = "grammar"
           /\ \E i, j \in DOMAIN found.pieces :
                /\ i < j
                /\ found.pieces[j].text # ""
                /\ found.pieces[i].from < found.pieces[j].from
                /\ found.pieces[j].to <= found.pieces[i].to
    /\ context.context_code # ""

\* the file with its language tag replaced
Tagged(meta, tag) == [meta EXCEPT !.language = tag]

\* C28: the tags 'c++' and 'cpp' are treated alike: for the same content
\* and offset segment_code returns the same segments and extract_context
\* the same context under either tag.
C28_CppTagsAlike ==
    Lower(file_metadata.language) \in {"cpp", "c++"} =>
        /\ pc = "segmented" =>
             /\ segments = SegmentCode(Tagged(file_metadata, "cpp"), grammar_available)
             /\ segments = SegmentCode(Tagged(file_metadata, "c++"), grammar_available)
        /\ pc = "context" =>
             /\ context = ExtractContext(Tagged(file_metadata, "cpp"), segment_start,
                                         grammar_available)
             /\ context = ExtractContext(Tagged(file_metadata, "c++"), segment_start,
                                         grammar_available)

\* under the tag C++ the grammar path collected nothing and the line prefix
\* was returned, where the tag cpp gives the text of the nodes
C28_CppTagFallsToLinePrefix ==
    /\ pc = "context"
    /\ Lower(file_metadata.language) = "c++"
    /\ grammar_available
    /\ ContextPieces(file_metadata, segment_start, grammar_available).path = "line prefix"
    /\ ContextPieces(Tagged(file_metadata, "cpp"), segment_start, grammar_available).path
         = "grammar"
    /\ context # ExtractContext(Tagged(file_metadata, "cpp"), segment_start,
                                grammar_available)

-----------------------------------------------------------------------------
(* A further claim about LLMValidator.validate, checked under SpecJudge *)

\* C29: validate returns a failing verdict only when the response text
\* contains 'fail' in any case; every other outcome of the model call (no
\* content, an ambiguous text, a raised error) gives a passing verdict.
C29_FailsOnlyOnFailKeyword ==
    pc = "done" =>
        (~returned[1].passed
            <=> llm_outcome.kind = "text" /\ Contains(Lower(llm_outcome.text), "fail"))

\* a response without content judged a fail
C29_NoContentFails ==
    /\ pc = "done"
    /\ llm_outcome.kind = "none"
    /\ ~returned[1].passed
    /\ returned[1].details = "No response from LLM."

-----------------------------------------------------------------------------
(* ModelClient.get_completion *)

\* most attempts a client is configured with
MaxRetries == 3
\* largest backoff factor a client is configured with
MaxBackoff == 3

\* the marker of a markdown code block: three grave accents, written here
\* with apostrophes because a TLA+ string cannot hold a grave accent
Fence == "'''"

\* what the generation model answers
CompletionContents ==
    {"int x = 1;", "  int x = 1;\n", Fence \o "java\nint x = 1;\n" \o Fence,
     Fence \o "\n" \o Fence,
     Fence \o "java\nint x = 1;\nint y = 2;\n" \o Fence \o "\n", ""}

\* the seconds slept after a failed attempt, growing with the attempts
WaitTimeLinear(factor, n) == factor * n

\* wait_time = self.backoff_factor ** attempt
WaitTime(factor, n) == factor ^ n

\* the content returned: trimmed, and without the first and last line when
\* it is a fenced block of three lines or more
CleanContent(content) ==
    LET stripped == Strip(content)
        lines == SplitLines(stripped)
    IN  IF /\ StartsWith(stripped, Fence)
           /\ Len(stripped) >= Len(Fence)
           /\ SubSeq(stripped, Len(stripped) - Len(Fence) + 1, Len(stripped)) = Fence
           /\ Len(lines) >= 3
          THEN JoinLines(SubSeq(lines, 2, Len(lines) - 1))
          ELSE stripped

InitCompletion ==
    /\ original_file = File("", TRUE, "")
    /\ converted_file = File("", TRUE, "")
    /\ IdleValidation
    /\ NoAnalysis
    /\ max_retries \in 1..MaxRetries
    /\ backoff_factor \in 1..MaxBackoff
    /\ attempt = 1
    /\ api_log = <<>>
    /\ waits = <<>>
    /\ completion = [returned |-> FALSE, value |-> ""]

\* an attempt whose request returns a response with a text content
AttemptSucceeds ==
    /\ pc = "ready"
    /\ attempt <= max_retries
    /\ \E content \in CompletionContents :
         /\ api_log' = Append(api_log, [kind |-> "content", content |-> content])
         /\ completion' = [returned |-> TRUE, value |-> CleanContent(content)]
    /\ pc' = "done"
    /\ UNCHANGED <<original_file, converted_file, strict_arg, cfg_strict, strict_mode,
                   skip_validators, idx, llm_outcome, exec_log, returned, results,
                   matrix, report, analysis, max_retries, backoff_factor, attempt,
                   waits>>

\* an attempt whose response has no content: None.strip() raises
\* AttributeError, which the except clause does not catch
AttemptWithoutContent ==
    /\ pc = "ready"
    /\ attempt <= max_retries
    /\ api_log' = Append(api_log, [kind |-> "none", content |-> ""])
    /\ pc' = "raised"
    /\ UNCHANGED <<original_file, converted_file, strict_arg, cfg_strict, strict_mode,
                   skip_validators, idx, llm_outcome, exec_log, returned, results,
                   matrix, report, analysis, max_retries, backoff_factor, attempt,
                   waits, completion>>

\* an attempt whose request raises openai.OpenAIError
AttemptFails ==
    /\ pc = "ready"
    /\ attempt <= max_retries
    /\ api_log' = Append(api_log, [kind |-> "error", content |-> ""])
    /\ IF attempt = max_retries
         THEN /\ completion' = [returned |-> TRUE, value |-> ""]
              /\ pc' = "done"
              /\ UNCHANGED <<attempt, waits>>
         ELSE /\ waits' = Append(waits, WaitTime(backoff_factor, attempt))
              /\ attempt' = attempt + 1
              /\ UNCHANGED <<completion, pc>>
    /\ UNCHANGED <<original_file, converted_file, strict_arg, cfg_strict, strict_mode,
                   skip_validators, idx, llm_outcome, exec_log, returned, results,
                   matrix, report, analysis, max_retries, backoff_factor>>

NextCompletion == AttemptSucceeds \/ AttemptWithoutContent \/ AttemptFails

SpecCompletion == InitCompletion /\ [][NextCompletion]_vars

\* the attempts so far that ended in an API error
FailedAttempts == {k \in DOMAIN api_log : api_log[k].kind = "error"}

\* C30: get_completion calls the model at most max_retries times; it
\* returns the response of the first attempt that succeeds; it has waited
\* backoff_factor ** attempt seconds after each failed attempt that another
\* attempt follows; after max_retries attempts that all failed with an API
\* error it returns the empty string, without a further wait and without
\* raising.
C30_BoundedRetriesWithBackoff ==
    /\ Len(api_log) <= max_retries
    /\ \A k \in DOMAIN api_log : k < Len(api_log) => api_log[k].kind = "error"
    /\ \A k \in DOMAIN waits : waits[k] = backoff_factor ^ k
    /\ Len(waits) = Cardinality(FailedAttempts \ {max_retries})
    /\ (pc = "done" /\ api_log[Len(api_log)].kind = "content")
         => /\ completion.returned
            /\ completion.value = CleanContent(api_log[Len(api_log)].content)
    /\ FailedAttempts = 1..max_retries
         => /\ pc = "done"
            /\ completion = [returned |-> TRUE, value |-> ""]
    /\ completion.returned => pc = "done"

\* three attempts failed, two waits were made and the empty string returned
C30_GaveUpAfterThreeAttempts ==
    /\ pc = "done"
    /\ max_retries = 3
    /\ FailedAttempts = 1..3
    /\ waits = <<backoff_factor, backoff_factor * backoff_factor>>
    /\ backoff_factor > 1
    /\ completion = [returned |-> TRUE, value |-> ""]

====
